---- MODULE Spec2Model ----
(***************************************************************************)
(* Model of src/app.py (Sitemap Generator): the generate/regenerate button *)
(* handler and its session state, the response XML extractor               *)
(* (extract_xml_from_response), the sitemap XML parser (parse_sitemap_xml) *)
(* and the CSV ingestion (parse_csv).                                      *)
(*                                                                         *)
(* Texts are sequences of lexemes.  Each lexeme stands for one piece of    *)
(* text that the regular expressions of the source treat as a unit:        *)
(*   "FX"   ```xml                      (fence marked xml)                 *)
(*   "F"    ```                         (bare fence)                       *)
(*   "D"    <?xml version="1.0" encoding="UTF-8"?>                         *)
(*   "DU"   <?XML version="1.0" encoding="UTF-8"?>   (upper-case target)   *)
(*   "UO"   <urlset xmlns="http://www.sitemaps.org/schemas/sitemap/0.9">   *)
(*   "UC"   </urlset>                                                      *)
(*   "URLO" <url>          "URLC" </url>                                   *)
(*   "LOCA" <loc> https://x.com/a </loc>   "LOCB" <loc>https://x.com/b</loc>*)
(*   "LM"   <lastmod>2024-01-01 </lastmod>   "CF" <changefreq>monthly</changefreq>*)
(*   "PRI"  <priority> 0.8</priority>                                      *)
(*   "WS"   a newline                                                      *)
(*   "T"    a word of prose                                                *)
(***************************************************************************)
EXTENDS Integers, Sequences, FiniteSets, TLC

VARIABLES
    GEMINI_API_KEY,   \* TRUE iff os.getenv('GEMINI_API_KEY') is set
    df,               \* the table parsed from the uploaded file, or None
    sitemap_results,  \* st.session_state.sitemap_results
    ui,               \* what the last script run put on the page
    llm,              \* what the LLM did in the last script run
    llm_calls,        \* number of generate_content calls in the last run
    outcome,          \* the path the last script run took
    text,             \* argument of extract_xml_from_response
    extracted,        \* its return value, None before the call
    xml_content,      \* argument of parse_sitemap_xml
    bs_raises,        \* TRUE iff BeautifulSoup(xml_content, 'xml') raises
    parsed,           \* outcome of parse_sitemap_xml, None before the call
    csv_file,         \* argument of parse_csv: the uploaded file
    ingested,         \* outcome of parse_csv, kind "none" before the call
    args,             \* arguments of the helper function that is applied
    result            \* its outcome, done FALSE before the call

vars == <<GEMINI_API_KEY, df, sitemap_results, ui, llm, llm_calls, outcome,
          text, extracted, xml_content, bs_raises, parsed, csv_file, ingested,
          args, result>>

appVars == <<GEMINI_API_KEY, df, sitemap_results, ui, llm, llm_calls, outcome>>
extractVars == <<text, extracted>>
parseVars == <<xml_content, bs_raises, parsed>>
csvVars == <<csv_file, ingested>>
callVars == <<args, result>>

None == [none |-> TRUE]

NoResult == [done |-> FALSE]

----------------------------------------------------------------------------
(* Bounds *)

MaxTextLen == 4
MaxXmlLen == 5
MaxRows == 1
MaxUrls == 2
MaxCsvRows == 4
MaxQaRows == 3
MaxPairs == 52
MaxTreeUrls == 4
MaxNameCols == 2
MaxColumns == 3

----------------------------------------------------------------------------
(* Lexemes and string helpers *)

Token == {"FX", "F", "D", "DU", "UO", "UC", "WS", "T"}

XmlToken == {"D", "UO", "UC", "URLO", "URLC", "LOCA", "T"}

RECURSIVE SeqsUpTo(_, _)
SeqsUpTo(S, n) ==
    IF n = 0 THEN {<<>>}
    ELSE LET shorter == SeqsUpTo(S, n - 1)
         IN shorter \cup {Append(s, x) : s \in {q \in shorter : Len(q) = n - 1}, x \in S}

\* Index of the first element of s at or after position from that lies in S,
\* 0 if there is none (re.search scans left to right).
IndexFrom(s, S, from) ==
    LET I == {k \in from..Len(s) : s[k] \in S}
    IN IF I = {} THEN 0 ELSE CHOOSE k \in I : \A m \in I : k <= m

RECURSIVE lstrip(_)
lstrip(s) == IF s # <<>> /\ Head(s) = "WS" THEN lstrip(Tail(s)) ELSE s

RECURSIVE rstrip(_)
rstrip(s) ==
    IF s # <<>> /\ s[Len(s)] = "WS" THEN rstrip(SubSeq(s, 1, Len(s) - 1)) ELSE s

\* str.strip()
strip(s) == lstrip(rstrip(s))

\* Variant of startswith_xml that accepts a declaration anywhere in s
\* ('<?xml' in s); C8 fails under it.
startswith_xml_anywhere(s) == \E k \in 1..Len(s) : s[k] = "D"

\* str.startswith('<?xml'): case-sensitive, so only the lower-case
\* declaration lexeme qualifies.
startswith_xml(s) == s # <<>> /\ Head(s) = "D"

\* '<?xml version="1.0" encoding="UTF-8"?>\n'
Declaration == <<"D", "WS">>

\* re.sub(r'```xml\s*', '', s, flags=re.IGNORECASE)
RECURSIVE sub_fence_xml(_)
sub_fence_xml(s) ==
    IF s = <<>> THEN <<>>
    ELSE IF Head(s) = "FX" THEN sub_fence_xml(lstrip(Tail(s)))
    ELSE <<Head(s)>> \o sub_fence_xml(Tail(s))

\* re.sub(r'```\s*$', '', s): removes a bare fence that is followed by
\* nothing but whitespace up to the end of the string.
sub_fence_end(s) ==
    LET r == rstrip(s)
    IN IF r # <<>> /\ r[Len(r)] = "F" THEN SubSeq(r, 1, Len(r) - 1) ELSE s

----------------------------------------------------------------------------
(* extract_xml_from_response, src/app.py 1381-1416.  The result carries    *)
(* the branch that returned (1..4) next to the returned text.              *)

\* r'```xml\s*(.*?)```' with DOTALL|IGNORECASE: the leftmost ```xml that is
\* followed by three backticks; both ``` and ```xml begin with them.
markdown_xml_match(t) ==
    LET i == IndexFrom(t, {"FX"}, 1)
        j == IF i = 0 THEN 0 ELSE IndexFrom(t, {"F", "FX"}, i + 1)
    IN [found |-> j # 0, group1 |-> IF j # 0 THEN lstrip(SubSeq(t, i + 1, j - 1)) ELSE <<>>]

\* Variant of xml_match whose match begins after the declaration; C9 fails
\* under it.
xml_match_after_declaration(t) ==
    LET i == IndexFrom(t, {"D", "DU"}, 1)
        j == IF i = 0 THEN 0 ELSE IndexFrom(t, {"UC"}, i + 1)
    IN [found |-> j # 0, group0 |-> IF j # 0 THEN SubSeq(t, i + 1, j) ELSE <<>>]

\* r'<\?xml.*?</urlset>' with DOTALL|IGNORECASE
xml_match(t) ==
    LET i == IndexFrom(t, {"D", "DU"}, 1)
        j == IF i = 0 THEN 0 ELSE IndexFrom(t, {"UC"}, i + 1)
    IN [found |-> j # 0, group0 |-> IF j # 0 THEN SubSeq(t, i, j) ELSE <<>>]

\* Variant of urlset_match that runs through the last </urlset>.
urlset_match_greedy(t) ==
    LET i == IndexFrom(t, {"UO"}, 1)
        j == IF i = 0 \/ \A k \in (i + 1)..Len(t) : t[k] # "UC" THEN 0
             ELSE CHOOSE k \in (i + 1)..Len(t) :
                      t[k] = "UC" /\ \A m \in (k + 1)..Len(t) : t[m] # "UC"
    IN [found |-> j # 0, group0 |-> IF j # 0 THEN SubSeq(t, i, j) ELSE <<>>]

\* r'<urlset.*?</urlset>' with DOTALL|IGNORECASE
urlset_match(t) ==
    LET i == IndexFrom(t, {"UO"}, 1)
        j == IF i = 0 THEN 0 ELSE IndexFrom(t, {"UC"}, i + 1)
    IN [found |-> j # 0, group0 |-> IF j # 0 THEN SubSeq(t, i, j) ELSE <<>>]

\* Variant of extract_xml_from_response whose last branch returns
\* text.strip(); C7 fails under it.
extract_xml_strip_fallback(t) ==
    LET m1 == markdown_xml_match(t)
        m2 == xml_match(t)
        m3 == urlset_match(t)
    IN IF m1.found
       THEN LET c == strip(m1.group1)
            IN [branch |-> 1,
                xml |-> IF ~startswith_xml(c) THEN Declaration \o c ELSE c]
       ELSE IF m2.found
       THEN LET c == sub_fence_end(sub_fence_xml(strip(m2.group0)))
            IN [branch |-> 2, xml |-> strip(c)]
       ELSE IF m3.found
       THEN LET c == sub_fence_end(sub_fence_xml(strip(m3.group0)))
            IN [branch |-> 3,
                xml |-> IF ~startswith_xml(c) THEN Declaration \o c ELSE c]
       ELSE [branch |-> 4, xml |-> strip(t)]

extract_xml_from_response(t) ==
    LET m1 == markdown_xml_match(t)
        m2 == xml_match(t)
        m3 == urlset_match(t)
    IN IF m1.found
       THEN LET c == strip(m1.group1)
            IN [branch |-> 1,
                xml |-> IF ~startswith_xml(c) THEN Declaration \o c ELSE c]
       ELSE IF m2.found
       THEN LET c == sub_fence_end(sub_fence_xml(strip(m2.group0)))
            IN [branch |-> 2, xml |-> strip(c)]
       ELSE IF m3.found
       THEN LET c == sub_fence_end(sub_fence_xml(strip(m3.group0)))
            IN [branch |-> 3,
                xml |-> IF ~startswith_xml(c) THEN Declaration \o c ELSE c]
       ELSE [branch |-> 4, xml |-> t]

----------------------------------------------------------------------------
(* parse_sitemap_xml, src/app.py 578-636.                                  *)

OpenTag == {"UO", "URLO"}
CloseTag == {"UC", "URLC"}
LocTag == {"LOCA", "LOCB"}
LastmodTag == {"LM"}
ChangefreqTag == {"CF"}
PriorityTag == {"PRI"}
LeafTag == LocTag \cup LastmodTag \cup ChangefreqTag \cup PriorityTag

\* The text content of an element lexeme as it stands in the document: the
\* value with the white space the document puts around it.
ElementText(tok) ==
    CASE tok = "LOCA" -> <<"WS", "https://x.com/a", "WS">>
      [] tok = "LOCB" -> <<"https://x.com/b">>
      [] tok = "LM"   -> <<"2024-01-01", "WS">>
      [] tok = "CF"   -> <<"monthly">>
      [] tok = "PRI"  -> <<"WS", "0.8">>
      [] OTHER        -> <<>>

\* x.get_text().strip() if x else '' (595-598); x.text.strip() if x.text
\* else '' (609-622); tok = "" stands for a child that was not found.
FieldText(tok) ==
    LET s == strip(ElementText(tok)) IN IF s = <<>> THEN "" ELSE s[1]

\* loc.get_text().strip() / loc.text.strip() / match.strip()
LocText(tok) == FieldText(tok)

\* Variant of UrlRecord that fills a missing priority with a default
\* value; C12 fails under it.
UrlRecord_default_priority(loc, lastmod, changefreq, priority) ==
    [url |-> LocText(loc), lastmod |-> FieldText(lastmod),
     changefreq |-> FieldText(changefreq),
     priority |-> IF priority = "" THEN "0.5" ELSE FieldText(priority)]

\* url_data (594-599, 608-613, 629-634)
UrlRecord(loc, lastmod, changefreq, priority) ==
    [url |-> LocText(loc), lastmod |-> FieldText(lastmod),
     changefreq |-> FieldText(changefreq), priority |-> FieldText(priority)]

\* Position of the end tag that closes the element whose content starts at
\* k, d elements being open; the end of the text closes whatever is open.
\* The recovering parser pops the current element at any end tag.
RECURSIVE CloseIndex(_, _, _)
CloseIndex(t, k, d) ==
    IF k > Len(t) THEN Len(t)
    ELSE IF t[k] \in OpenTag THEN CloseIndex(t, k + 1, d + 1)
    ELSE IF t[k] \in CloseTag
         THEN IF d = 1 THEN k ELSE CloseIndex(t, k + 1, d - 1)
    ELSE CloseIndex(t, k + 1, d)

\* Index of the root element's start tag for the recovering parser: the
\* first lexeme that is neither whitespace nor a declaration must be a start
\* tag, else the document is empty (0).
RootIndex(t) ==
    LET I == {k \in 1..Len(t) : t[k] \notin {"WS", "D", "DU"}}
        r == IF I = {} THEN 0 ELSE CHOOSE k \in I : \A m \in I : k <= m
    IN IF r # 0 /\ t[r] \in OpenTag THEN r ELSE 0

\* The records of one tier for the url elements between i and last (in
\* document order); ChildOf[i] holds the loc, lastmod, changefreq and
\* priority lexemes found for the element at i, "" for one not found.
RECURSIVE CollectUrls(_, _, _, _)
CollectUrls(t, i, last, ChildOf) ==
    IF i > last THEN <<>>
    ELSE IF t[i] = "URLO" /\ ChildOf[i].loc # ""
         THEN <<UrlRecord(ChildOf[i].loc, ChildOf[i].lastmod,
                          ChildOf[i].changefreq, ChildOf[i].priority)>>
              \o CollectUrls(t, i + 1, last, ChildOf)
    ELSE CollectUrls(t, i + 1, last, ChildOf)

\* url_elem.find(name) of tier 1: the first lexeme of K after position i
\* and up to stop.
FirstBelow(t, i, stop, K) ==
    LET j == IndexFrom(SubSeq(t, 1, stop), K, i + 1)
    IN IF j = 0 THEN "" ELSE t[j]

\* Tier 1 (582-600): soup.find_all('url'), and for each url_elem the first
\* loc, lastmod, changefreq and priority below it (find searches all
\* descendants).
bs4_urls(t) ==
    LET r == RootIndex(t)
        rootEnd == IF r = 0 THEN 0 ELSE CloseIndex(t, r + 1, 1)
        ChildOf == [i \in 1..Len(t) |->
            LET e == CloseIndex(t, i + 1, 1)
                stop == IF e < rootEnd THEN e ELSE rootEnd
            IN [loc |-> FirstBelow(t, i, stop, LocTag),
                lastmod |-> FirstBelow(t, i, stop, LastmodTag),
                changefreq |-> FirstBelow(t, i, stop, ChangefreqTag),
                priority |-> FirstBelow(t, i, stop, PriorityTag)]]
    IN IF r = 0 THEN <<>> ELSE CollectUrls(t, r, rootEnd, ChildOf)

\* ET.fromstring accepts t: an optional declaration at the very start, one
\* root element with properly nested, matching tags, and only whitespace
\* after it.  stack holds the open elements, innermost first; seen is TRUE
\* once the root element was opened.
RECURSIVE WellFormedFrom(_, _, _, _)
WellFormedFrom(t, k, stack, seen) ==
    IF k > Len(t) THEN seen /\ stack = <<>>
    ELSE LET x == t[k]
         IN IF x = "WS" THEN WellFormedFrom(t, k + 1, stack, seen)
            ELSE IF x \in {"D", "DU"} THEN FALSE
            ELSE IF stack = <<>>
                 THEN /\ ~seen
                      /\ x \in OpenTag \cup LeafTag
                      /\ WellFormedFrom(t, k + 1,
                             IF x \in OpenTag THEN <<x>> ELSE <<>>, TRUE)
            ELSE IF x \in OpenTag
                 THEN WellFormedFrom(t, k + 1, <<x>> \o stack, seen)
            ELSE IF x \in CloseTag
                 THEN /\ Head(stack) = (IF x = "UC" THEN "UO" ELSE "URLO")
                      /\ WellFormedFrom(t, k + 1, Tail(stack), seen)
            ELSE WellFormedFrom(t, k + 1, stack, seen)

WellFormed(t) ==
    IF t # <<>> /\ Head(t) = "D" THEN WellFormedFrom(t, 2, <<>>, FALSE)
    ELSE WellFormedFrom(t, 1, <<>>, FALSE)

\* Tier 2 (604-623) on a well-formed document: the url elements below a
\* root that declares the sitemap namespace, each with its loc, lastmod,
\* changefreq and priority child (find searches direct children only).
\* DirectChild is the first lexeme of K that is a child of the element
\* whose content starts at k.
RECURSIVE DirectChild(_, _, _, _)
DirectChild(t, k, d, K) ==
    IF k > Len(t) THEN ""
    ELSE IF t[k] \in OpenTag THEN DirectChild(t, k + 1, d + 1, K)
    ELSE IF t[k] \in CloseTag
         THEN IF d = 1 THEN "" ELSE DirectChild(t, k + 1, d - 1, K)
    ELSE IF t[k] \in K /\ d = 1 THEN t[k]
    ELSE DirectChild(t, k + 1, d, K)

et_urls(t) ==
    LET r == RootIndex(t)
        ChildOf == [i \in 1..Len(t) |->
            [loc |-> DirectChild(t, i + 1, 1, LocTag),
             lastmod |-> DirectChild(t, i + 1, 1, LastmodTag),
             changefreq |-> DirectChild(t, i + 1, 1, ChangefreqTag),
             priority |-> DirectChild(t, i + 1, 1, PriorityTag)]]
    IN IF r = 0 \/ t[r] # "UO" THEN <<>>
       ELSE CollectUrls(t, r + 1, Len(t), ChildOf)

\* Tier 3 (626-634): re.findall(r'<loc>(.*?)</loc>', xml_content)
RECURSIVE regex_urls(_)
regex_urls(t) ==
    IF t = <<>> THEN <<>>
    ELSE IF Head(t) \in LocTag
         THEN <<UrlRecord(Head(t), "", "", "")>> \o regex_urls(Tail(t))
    ELSE regex_urls(Tail(t))

\* What one tier does to the shared list urls: the records it appends, and
\* whether it raises.  BeautifulSoup(xml_content, 'xml') and ET.fromstring
\* are the only statements of their tiers that can raise, and they stand
\* before the loops, so a tier that raises has appended nothing.
\* bsRaises: BeautifulSoup(xml_content, 'xml') raises (for instance
\* bs4.FeatureNotFound when the lxml backend is missing).

\* Variant of bs4_tier that raises after its loop has appended; C11 fails
\* under it.
bs4_tier_raises_late(t, bsRaises) ==
    [raised |-> bsRaises, appended |-> bs4_urls(t)]

bs4_tier(t, bsRaises) ==
    IF bsRaises THEN [raised |-> TRUE, appended |-> <<>>]
    ELSE [raised |-> FALSE, appended |-> bs4_urls(t)]

et_tier(t) ==
    IF WellFormed(t) THEN [raised |-> FALSE, appended |-> et_urls(t)]
    ELSE [raised |-> TRUE, appended |-> <<>>]

\* Variant of regex_tier with re.search in place of re.findall: only the
\* first match becomes a record; C13 fails under it.
regex_tier_first_match(t) ==
    LET j == IndexFrom(t, LocTag, 1)
    IN [raised |-> FALSE,
        appended |-> IF j = 0 THEN <<>> ELSE <<UrlRecord(t[j], "", "", "")>>]

regex_tier(t) == [raised |-> FALSE, appended |-> regex_urls(t)]

\* Variant of parse_sitemap_xml without the innermost try/except: the
\* exception of ET.fromstring propagates; C10 fails under it.
parse_sitemap_xml_no_regex_tier(t, bsRaises) ==
    LET t1 == bs4_tier(t, bsRaises)
        t2 == et_tier(t)
    IN IF ~t1.raised
       THEN [raised |-> FALSE, tier |-> 1, urls |-> t1.appended]
       ELSE IF ~t2.raised
       THEN [raised |-> FALSE, tier |-> 2, urls |-> t1.appended \o t2.appended]
       ELSE [raised |-> TRUE, tier |-> 2, urls |-> <<>>]

\* The three nested try blocks.  urls (580) is one list that every tier
\* appends to and that is never cleared; tier is the tier that completed.
parse_sitemap_xml(t, bsRaises) ==
    LET t1 == bs4_tier(t, bsRaises)
        t2 == et_tier(t)
        t3 == regex_tier(t)
    IN IF ~t1.raised
       THEN [raised |-> FALSE, tier |-> 1, urls |-> t1.appended]
       ELSE IF ~t2.raised
       THEN [raised |-> FALSE, tier |-> 2, urls |-> t1.appended \o t2.appended]
       ELSE [raised |-> FALSE, tier |-> 3,
             urls |-> t1.appended \o t2.appended \o t3.appended]

----------------------------------------------------------------------------
(* parse_csv, src/app.py 424-575.                                          *)
(*                                                                         *)
(* A file is a sequence of csv rows written with one delimiter.  A row is  *)
(* one of                                                                  *)
(*   "meta"   Client report                 (one cell, no keyword)         *)
(*   "hdr3"   Section,Question,Answer       (three cells, keywords)        *)
(*   "hdr2"   Question,Answer               (two cells, keywords)          *)
(*   "dat3"   s1,q1,a1      "dat2"   q1,a1  (cells without keyword)        *)
(*   "blank"  an empty line                                                *)
(*   "note"   one quoted cell that spans three lines of the file, the      *)
(*            second being:  Question, answer, section                     *)
(* with the file's delimiter in the place of the commas of hdr and dat.    *)
(* utf8 tells whether the bytes of the file are valid UTF-8; every byte    *)
(* sequence is valid Latin-1, ISO-8859-1 and (for the bytes used) CP1252.  *)
(* fails holds the delimiters under which pandas' python reader raises on  *)
(* this file (for instance _csv.Error: field larger than field limit, on a *)
(* long line that holds no such delimiter).                                *)

SupportedDelimiter == {",", ";", "\t", "|"}
FileDelimiter == SupportedDelimiter \cup {":"}

RowKind == {"meta", "hdr3", "hdr2", "dat3", "dat2", "blank", "note"}

RowCells(kind) ==
    CASE kind = "meta"  -> <<"Client report">>
      [] kind = "hdr3"  -> <<"Section", "Question", "Answer">>
      [] kind = "hdr2"  -> <<"Question", "Answer">>
      [] kind = "dat3"  -> <<"s1", "q1", "a1">>
      [] kind = "dat2"  -> <<"q1", "a1">>
      [] kind = "note"  -> <<"Notes: Question, answer, section">>
      [] OTHER          -> <<>>

\* The lines of one row as content.split('\n') yields them (447): whether
\* the lowered line contains 'section', 'question' or 'answer' (453),
\* whether line.strip() is empty (473) and line.count(c) for each c.
NoDelimiter == [c \in FileDelimiter |-> 0]

RowLines(kind, d) ==
    IF kind = "blank" THEN <<[kw |-> FALSE, blank |-> TRUE, count |-> NoDelimiter]>>
    ELSE IF kind = "note"
    THEN <<[kw |-> FALSE, blank |-> FALSE, count |-> NoDelimiter],
           [kw |-> TRUE, blank |-> FALSE, count |-> [NoDelimiter EXCEPT ![","] = 2]],
           [kw |-> FALSE, blank |-> FALSE, count |-> NoDelimiter]>>
    ELSE <<[kw |-> kind \in {"hdr3", "hdr2"}, blank |-> FALSE,
            count |-> [NoDelimiter EXCEPT ![d] = Len(RowCells(kind)) - 1]]>>

RECURSIVE split_lines(_, _)
split_lines(rows, d) ==
    IF rows = <<>> THEN <<>>
    ELSE RowLines(Head(rows), d) \o split_lines(Tail(rows), d)

NotBlankLine(l) == ~l.blank

\* not content or len(content.strip()) == 0 (443)
is_empty(lines) == SelectSeq(lines, NotBlankLine) = <<>>

Least(I) == CHOOSE k \in I : \A m \in I : k <= m

\* Header row detection (448-469); the index counts from 0 as in the
\* source.
header_row_index(lines) ==
    LET Multi == {i \in 1..Len(lines) : lines[i].count[","] >= 2}
        Keyword == {i \in Multi : lines[i].kw}
    IN IF Keyword # {} THEN Least(Keyword) - 1
       ELSE IF Multi # {} THEN Least(Multi) - 1
       ELSE 0

\* data_lines (473)
data_lines(lines, h) == SelectSeq(SubSeq(lines, h + 2, Len(lines)), NotBlankLine)

\* Variant of no_data_after_header without the test header_row_index > 0;
\* C17 fails under it.
no_data_after_header_from_line_0(lines, h) == data_lines(lines, h) = <<>>

\* The check of 472-475.
no_data_after_header(lines, h) == h > 0 /\ data_lines(lines, h) = <<>>


\* parse_options (488-497)
parse_options ==
    <<[encoding |-> "utf-8", delimiter |-> ","],
      [encoding |-> "utf-8", delimiter |-> ";"],
      [encoding |-> "utf-8", delimiter |-> "\t"],
      [encoding |-> "utf-8", delimiter |-> "|"],
      [encoding |-> "latin-1", delimiter |-> ","],
      [encoding |-> "latin-1", delimiter |-> ";"],
      [encoding |-> "iso-8859-1", delimiter |-> ","],
      [encoding |-> "cp1252", delimiter |-> ","]>>

\* The fields the reader splits a row into under delimiter c: the cells
\* when c is the delimiter the file was written with, else the whole line
\* as one field (the commas of a note stand inside its quotes).
Fields(kind, d, c) ==
    IF kind = "blank" THEN <<>>
    ELSE IF c = d \/ Len(RowCells(kind)) = 1 THEN RowCells(kind)
    ELSE <<"<line>">>

NotBlankRow(kind) == kind # "blank"

\* pd.read_csv(file, encoding=, delimiter=, skiprows=, on_bad_lines='skip',
\* engine='python') (511-518), as pandas documents it: the bytes are
\* decoded; the first skiprows rows of the csv reader are dropped (a
\* quoted cell with line breaks is one row); blank rows are ignored; the
\* first row left names the columns, and EmptyDataError is raised when no
\* row is left; fields of the first data row beyond the columns become the
\* index; a later row with more fields than that is a bad line and is
\* skipped.  error is "" when a table is returned.
read_csv(file, encoding, c, skiprows) ==
    LET rest == SelectSeq(SubSeq(file.rows, skiprows + 1, Len(file.rows)), NotBlankRow)
        names == Fields(Head(rest), file.delim, c)
        data == Tail(rest)
        width(kind) == Len(Fields(kind, file.delim, c))
        index_cols == IF data # <<>> /\ width(Head(data)) > Len(names)
                      THEN width(Head(data)) - Len(names) ELSE 0
        good(kind) == width(kind) <= Len(names) + index_cols
    IN IF encoding = "utf-8" /\ ~file.utf8
       THEN [error |-> "UnicodeDecodeError", columns |-> <<>>, nrows |-> 0]
       ELSE IF c \in file.fails
       THEN [error |-> "ParserError", columns |-> <<>>, nrows |-> 0]
       ELSE IF rest = <<>>
       THEN [error |-> "EmptyDataError", columns |-> <<>>, nrows |-> 0]
       ELSE [error |-> "", columns |-> names, nrows |-> Len(SelectSeq(data, good))]

\* pd.read_csv(file, sep=None, engine='python', on_bad_lines='skip') (564):
\* UTF-8 decoding, no row skipped, the delimiter found by csv.Sniffer, which
\* is taken to find the one the file was written with.
read_csv_sniff(file) == read_csv(file, "utf-8", file.delim, 0)

Returned(table, h, attempts) ==
    [kind |-> "table", columns |-> table.columns, nrows |-> table.nrows,
     error |-> "", last_error |-> "", header_row_index |-> h,
     attempts |-> attempts]

Failed(error, last_error, h, attempts) ==
    [kind |-> "error", columns |-> <<>>, nrows |-> 0,
     error |-> error, last_error |-> last_error, header_row_index |-> h,
     attempts |-> attempts]

\* Variant of aborts under which a decoding error ends the ingestion as
\* well; C19's amended statement fails under it.
aborts_on_decode_error(error) == error \in {"EmptyDataError", "UnicodeDecodeError"}

\* The except clauses of the loop (552-559): EmptyDataError is turned into
\* a ValueError that leaves the function, every other exception is kept in
\* last_error and the loop continues.
aborts(error) == error = "EmptyDataError"

\* Variant of keep_last_error that keeps the first error; C20 fails
\* under it.
keep_first_error(last_error, error) == IF last_error = "" THEN error ELSE last_error

\* last_error = e (555, 558)
keep_last_error(last_error, error) == error

\* The automatic detection after the loop and the final raise (562-575);
\* attempt 9 is the automatic detection, last_error "" is None.
auto_detect(file, h, last_error, attempts) ==
    LET table == read_csv_sniff(file)
        tried == Append(attempts, Len(parse_options) + 1)
    IN IF table.error = "" /\ Len(table.columns) > 0
       THEN Returned(table, h, tried)
       ELSE Failed("unparseable", last_error, h, tried)

\* Variant of accepts that wants a data row as well; C18 fails under it.
accepts_with_rows(table) == Len(table.columns) > 0 /\ table.nrows > 0

\* A table with at least one column is returned, with or without rows
\* (541-550).
accepts(table) == Len(table.columns) > 0

\* The loop over parse_options from candidate k on (501-559); h is
\* header_row_index, attempts the candidates tried so far.
RECURSIVE read_candidates(_, _, _, _, _)
read_candidates(file, h, k, last_error, attempts) ==
    IF k > Len(parse_options) THEN auto_detect(file, h, last_error, attempts)
    ELSE LET table == read_csv(file, parse_options[k].encoding,
                               parse_options[k].delimiter, h)
             tried == Append(attempts, k)
         IN IF table.error = ""
            THEN IF accepts(table) THEN Returned(table, h, tried)
                 ELSE IF table.nrows = 0
                 THEN read_candidates(file, h, k + 1, last_error, tried)
                 ELSE read_candidates(file, h, k + 1,
                          keep_last_error(last_error, "ValueError"), tried)
            ELSE IF aborts(table.error)
            THEN Failed("empty_data", last_error, h, tried)
            ELSE read_candidates(file, h, k + 1,
                     keep_last_error(last_error, table.error), tried)

\* parse_csv: the empty check (443-444), the header row and the check for
\* data after it (446-475, re-raised at 478-479), then the candidates.
\* The arguments on_bad_lines of current pandas are modelled (510-518); the
\* TypeError fall-backs for older versions (519-539) are not taken.
parse_csv(file) ==
    LET lines == split_lines(file.rows, file.delim)
        h == header_row_index(lines)
    IN IF is_empty(lines) THEN Failed("empty", "", 0, <<>>)
       ELSE IF no_data_after_header(lines, h)
       THEN Failed("no_data_after_header", "", h, <<>>)
       ELSE read_candidates(file, h, 1, "", <<>>)

NoFile == [rows |-> <<>>, delim |-> ",", utf8 |-> TRUE, fails |-> {}]

NotIngested ==
    [kind |-> "none", columns |-> <<>>, nrows |-> 0, error |-> "",
     last_error |-> "", header_row_index |-> 0, attempts |-> <<>>]

----------------------------------------------------------------------------
(* The page script below the file uploader, src/app.py 1436-1620.          *)

\* Cell values of the uploaded table: NaN is pandas' missing value, the
\* others are the strings themselves.
NaN == "<NaN>"
Cells == {NaN, " ", " x "}

\* pd.notna
notna(v) == v # NaN

\* str.strip() on cell strings
strip_cell(v) ==
    CASE v = " "   -> ""
      [] v = " x " -> "x"
      [] v = "x"   -> "x"
      [] OTHER     -> v

\* The columns picked by the auto-detection (1454-1487) for a table whose
\* columns are named question and answer.
question_column == "question"
answer_column == "answer"

Rows == [{question_column, answer_column} -> Cells]

\* The row labels of a DataFrame (df.index): integers, or strings.  The
\* table that read_csv returns is labelled 0, 1, 2, ... unless the first
\* data row holds more fields than the header, in which case the leading
\* fields of every row become its label.
IntLabel(n) == [kind |-> "int", n |-> n]
StrLabel == [kind |-> "str", n |-> 0]

RangeIndex(n) == [i \in 1..n |-> IntLabel(i - 1)]

Tables == {[rows |-> r, index |-> RangeIndex(Len(r))] : r \in SeqsUpTo(Rows, MaxRows)}

\* The test of 1037-1040 on the row at position k.
has_qa_pair(rows, k, question_col, answer_col) ==
    LET question == IF notna(rows[k][question_col]) THEN rows[k][question_col] ELSE ""
        answer == IF notna(rows[k][answer_col]) THEN rows[k][answer_col] ELSE ""
    IN /\ question # "" /\ answer # ""
       /\ strip_cell(question) # "" /\ strip_cell(answer) # ""

\* The loop of extract_qa_pairs from position k on (1036-1045); idx is the
\* label index[k] of the row, not its position.
RECURSIVE qa_pairs_from(_, _, _, _, _)
qa_pairs_from(rows, index, k, question_col, answer_col) ==
    IF k > Len(rows) THEN <<>>
    ELSE LET rest == qa_pairs_from(rows, index, k + 1, question_col, answer_col)
         IN IF has_qa_pair(rows, k, question_col, answer_col)
            THEN <<[id |-> index[k].n + 1,
                    question |-> strip_cell(rows[k][question_col]),
                    answer |-> strip_cell(rows[k][answer_col])]>> \o rest
            ELSE rest

\* extract_qa_pairs (1032-1047).  idx + 1 (1042) raises TypeError when the
\* label of a row that is appended is a string.
extract_qa_pairs(table, question_col, answer_col) ==
    LET raises == \E k \in 1..Len(table.rows) :
                     /\ has_qa_pair(table.rows, k, question_col, answer_col)
                     /\ table.index[k].kind = "str"
    IN IF raises THEN [raised |-> TRUE, qa_pairs |-> <<>>]
       ELSE [raised |-> FALSE,
             qa_pairs |-> qa_pairs_from(table.rows, table.index, 1,
                                        question_col, answer_col)]

\* extract_client_name (996-1029) for a table without a name column.
extract_client_name(table) == "sitemap"

\* What model.generate_content(prompt) followed by response.text can do:
\* raise, or yield a response text.
LlmResponses ==
    { <<>>,
      <<"T", "WS", "T">>,
      <<"T", "LOCA">>,
      <<"T", "WS", "FX", "WS", "UO", "URLO", "LOCA", "URLC", "UC", "WS", "F">>,
      <<"D", "WS", "UO", "URLO", "LOCA", "URLC", "URLO", "LOCB", "URLC", "UC">> }

LlmOutcomes ==
    {[ok |-> FALSE, text |-> <<>>]} \cup {[ok |-> TRUE, text |-> r] : r \in LlmResponses}

\* Variant of analyze_with_gemini that returns the error message as if it
\* were the response instead of raising; C2 fails under it.
analyze_with_gemini_returns_error(qa_pairs, key, gen) ==
    IF ~key THEN [raised |-> TRUE, sitemap |-> <<>>, calls |-> 0]
    ELSE IF gen.ok
    THEN [raised |-> FALSE, sitemap |-> extract_xml_from_response(gen.text).xml, calls |-> 1]
    ELSE [raised |-> FALSE, sitemap |-> <<"T">>, calls |-> 1]

\* Variant of analyze_with_gemini that raises when the response holds no
\* XML; C4 fails under it.
analyze_with_gemini_requires_xml(qa_pairs, key, gen) ==
    IF ~key THEN [raised |-> TRUE, sitemap |-> <<>>, calls |-> 0]
    ELSE IF gen.ok /\ extract_xml_from_response(gen.text).branch # 4
    THEN [raised |-> FALSE, sitemap |-> extract_xml_from_response(gen.text).xml, calls |-> 1]
    ELSE [raised |-> TRUE, sitemap |-> <<>>, calls |-> 1]

\* Variant of analyze_with_gemini that retries a failed call twice; C5 fails
\* under it.
analyze_with_gemini_retries(qa_pairs, key, gen) ==
    IF ~key THEN [raised |-> TRUE, sitemap |-> <<>>, calls |-> 0]
    ELSE IF gen.ok
    THEN [raised |-> FALSE, sitemap |-> extract_xml_from_response(gen.text).xml, calls |-> 1]
    ELSE [raised |-> TRUE, sitemap |-> <<>>, calls |-> 3]

\* analyze_with_gemini (1050-1054, 1418-1428): one generate_content call on
\* gemini-2.5-flash, no fallback model; any exception is raised again.
analyze_with_gemini(qa_pairs, key, gen) ==
    IF ~key THEN [raised |-> TRUE, sitemap |-> <<>>, calls |-> 0]
    ELSE IF gen.ok
    THEN [raised |-> FALSE, sitemap |-> extract_xml_from_response(gen.text).xml, calls |-> 1]
    ELSE [raised |-> TRUE, sitemap |-> <<>>, calls |-> 1]

\* Variant of on_generate without the `if not qa_pairs` branch; C3 fails
\* under it.
on_generate_no_pairs_check(key, table, old, gen, bsRaises) ==
    IF ~key
    THEN [results |-> old, errors |-> {"no_api_key"}, warnings |-> {},
          calls |-> 0, path |-> "no_key"]
    ELSE LET e == extract_qa_pairs(table, question_column, answer_column)
             qa_pairs == e.qa_pairs
             a == analyze_with_gemini(qa_pairs, key, gen)
             p == parse_sitemap_xml(a.sitemap, bsRaises)
         IN IF e.raised
            THEN [results |-> None, errors |-> {"exception"}, warnings |-> {},
                  calls |-> 0, path |-> "exception"]
            ELSE IF a.raised \/ p.raised
            THEN [results |-> None, errors |-> {"exception"}, warnings |-> {},
                  calls |-> a.calls, path |-> "exception"]
            ELSE [results |-> [sitemap |-> a.sitemap,
                               parsed_urls |-> p.urls,
                               client_name |-> extract_client_name(table),
                               qa_pairs |-> qa_pairs,
                               df_rows |-> Len(table.rows),
                               df_columns |-> 2],
                  errors |-> {}, warnings |-> {},
                  calls |-> a.calls, path |-> "ok"]

\* The body of `if st.button(...)` (1500-1542): the new stored result, the
\* messages reported and the number of LLM calls made.
on_generate(key, table, old, gen, bsRaises) ==
    IF ~key
    THEN [results |-> old, errors |-> {"no_api_key"}, warnings |-> {},
          calls |-> 0, path |-> "no_key"]
    ELSE LET e == extract_qa_pairs(table, question_column, answer_column)
             qa_pairs == e.qa_pairs
         IN IF e.raised
            THEN [results |-> None, errors |-> {"exception"}, warnings |-> {},
                  calls |-> 0, path |-> "exception"]
            ELSE IF qa_pairs = <<>>
            THEN [results |-> None, errors |-> {}, warnings |-> {"no_pairs"},
                  calls |-> 0, path |-> "no_pairs"]
            ELSE LET a == analyze_with_gemini(qa_pairs, key, gen)
                     p == parse_sitemap_xml(a.sitemap, bsRaises)
                 IN IF a.raised \/ p.raised
                    THEN [results |-> None, errors |-> {"exception"}, warnings |-> {},
                          calls |-> a.calls, path |-> "exception"]
                    ELSE [results |-> [sitemap |-> a.sitemap,
                                       parsed_urls |-> p.urls,
                                       client_name |-> extract_client_name(table),
                                       qa_pairs |-> qa_pairs,
                                       df_rows |-> Len(table.rows),
                                       df_columns |-> 2],
                          errors |-> {}, warnings |-> {},
                          calls |-> a.calls, path |-> "ok"]

\* The results section (1544-1620): nothing without a stored result, the
\* folder tree when there are parsed URLs, else a warning.
display(results) ==
    IF results = None THEN [view |-> "none", shown |-> None, warnings |-> {}]
    ELSE IF results.parsed_urls # <<>>
    THEN [view |-> "tree", shown |-> results, warnings |-> {}]
    ELSE [view |-> "unparsed", shown |-> results, warnings |-> {"cannot_parse"}]

\* df.empty warning (1441-1442)
empty_warning(table) == IF table.rows = <<>> THEN {"csv_empty"} ELSE {}

\* load_dotenv() and os.getenv at the top of every script run (8-11): a key
\* that is in the process environment stays there, a missing one may have
\* been added to .env since the last run.
KeyAfterReload == IF GEMINI_API_KEY THEN {TRUE} ELSE BOOLEAN

NotCalled == [status |-> "not_called", text |-> <<>>]

NoPage == [errors |-> {}, warnings |-> {}, view |-> "none", shown |-> None]

Init ==
    /\ GEMINI_API_KEY \in BOOLEAN
    /\ df = None
    /\ sitemap_results = None
    /\ ui = NoPage
    /\ llm = NotCalled
    /\ llm_calls = 0
    /\ outcome = "start"
    /\ text = <<>>
    /\ extracted = [branch |-> 0, xml |-> <<>>]
    /\ xml_content = <<>>
    /\ bs_raises = FALSE
    /\ parsed = [raised |-> FALSE, tier |-> 0, urls |-> <<>>]
    /\ csv_file = NoFile
    /\ ingested = NotIngested
    /\ args = None
    /\ result = NoResult

\* A file is uploaded (or replaced): the script runs, the button is not
\* clicked, the stored result is displayed again.
Upload(table) ==
    /\ GEMINI_API_KEY' \in KeyAfterReload
    /\ df' = table
    /\ sitemap_results' = sitemap_results
    /\ LET d == display(sitemap_results)
       IN ui' = [errors |-> {}, warnings |-> empty_warning(table) \cup d.warnings,
                 view |-> d.view, shown |-> d.shown]
    /\ llm' = NotCalled
    /\ llm_calls' = 0
    /\ outcome' = "upload"
    /\ UNCHANGED <<extractVars, parseVars, csvVars, callVars>>

\* The file is removed: the script runs and shows nothing (1622-1623).
RemoveFile ==
    /\ df # None
    /\ GEMINI_API_KEY' \in KeyAfterReload
    /\ df' = None
    /\ ui' = NoPage
    /\ llm' = NotCalled
    /\ llm_calls' = 0
    /\ outcome' = "no_file"
    /\ UNCHANGED <<sitemap_results, extractVars, parseVars, csvVars, callVars>>

\* The generate/regenerate button is clicked: the script runs with the
\* handler, then the results section.
Generate ==
    /\ df # None
    /\ \E key \in KeyAfterReload, gen \in LlmOutcomes, bsRaises \in BOOLEAN :
          LET h == on_generate(key, df, sitemap_results, gen, bsRaises)
              d == display(h.results)
          IN /\ GEMINI_API_KEY' = key
             /\ sitemap_results' = h.results
             /\ ui' = [errors |-> h.errors,
                       warnings |-> empty_warning(df) \cup h.warnings \cup d.warnings,
                       view |-> d.view, shown |-> d.shown]
             /\ llm' = IF h.calls = 0 THEN NotCalled
                       ELSE [status |-> IF gen.ok THEN "ok" ELSE "failed", text |-> gen.text]
             /\ llm_calls' = h.calls
             /\ outcome' = h.path
    /\ UNCHANGED <<df, extractVars, parseVars, csvVars, callVars>>

Next ==
    \/ \E table \in Tables : Upload(table)
    \/ RemoveFile
    \/ Generate

Spec == Init /\ [][Next]_vars

----------------------------------------------------------------------------
(* Specification of the extractor: the text is drawn, then extracted.      *)

Texts == SeqsUpTo(Token, MaxTextLen)

XmlInputs == SeqsUpTo(XmlToken, MaxXmlLen)

AppIdle ==
    /\ GEMINI_API_KEY = FALSE
    /\ df = None
    /\ sitemap_results = None
    /\ ui = NoPage
    /\ llm = NotCalled
    /\ llm_calls = 0
    /\ outcome = "start"

InitExtract ==
    /\ AppIdle
    /\ text \in Texts
    /\ extracted = [branch |-> 0, xml |-> <<>>]
    /\ xml_content = <<>>
    /\ bs_raises = FALSE
    /\ parsed = [raised |-> FALSE, tier |-> 0, urls |-> <<>>]
    /\ csv_file = NoFile
    /\ ingested = NotIngested
    /\ args = None
    /\ result = NoResult

Extract ==
    /\ extracted.branch = 0
    /\ extracted' = extract_xml_from_response(text)
    /\ UNCHANGED <<text, appVars, parseVars, csvVars, callVars>>

NextExtract == Extract

SpecExtract == InitExtract /\ [][NextExtract]_vars

(* Specification of the parser: the document and the availability of the   *)
(* BeautifulSoup backend are drawn, then the document is parsed.           *)

InitParse ==
    /\ AppIdle
    /\ text = <<>>
    /\ extracted = [branch |-> 0, xml |-> <<>>]
    /\ xml_content \in XmlInputs
    /\ bs_raises \in BOOLEAN
    /\ parsed = [raised |-> FALSE, tier |-> 0, urls |-> <<>>]
    /\ csv_file = NoFile
    /\ ingested = NotIngested
    /\ args = None
    /\ result = NoResult

Parse ==
    /\ parsed.tier = 0
    /\ parsed' = parse_sitemap_xml(xml_content, bs_raises)
    /\ UNCHANGED <<xml_content, bs_raises, appVars, extractVars, csvVars, callVars>>

NextParse == Parse

SpecParse == InitParse /\ [][NextParse]_vars

(* Specification of the parser on sitemap documents: a urlset root that    *)
(* declares the sitemap namespace, and below it up to MaxUrls url entries, *)
(* each with or without its loc, lastmod, changefreq and priority child    *)
(* and with or without its end tag, at most one entry being without.      *)

Entries ==
    [loc : {""} \cup LocTag, lastmod : {""} \cup LastmodTag,
     changefreq : {""} \cup ChangefreqTag, priority : {""} \cup PriorityTag,
     closed : BOOLEAN]

Opt(tok) == IF tok = "" THEN <<>> ELSE <<tok>>

EntryText(e) ==
    <<"URLO">> \o Opt(e.loc) \o Opt(e.lastmod) \o Opt(e.changefreq)
        \o Opt(e.priority) \o (IF e.closed THEN <<"URLC">> ELSE <<>>)

RECURSIVE EntriesText(_)
EntriesText(es) ==
    IF es = <<>> THEN <<>> ELSE EntryText(Head(es)) \o EntriesText(Tail(es))

Documents ==
    {<<"UO">> \o EntriesText(es) \o <<"UC">> :
        es \in {q \in SeqsUpTo(Entries, MaxUrls) :
                  Len(SelectSeq(q, LAMBDA e : ~e.closed)) <= 1}}

InitParseDoc ==
    /\ AppIdle
    /\ text = <<>>
    /\ extracted = [branch |-> 0, xml |-> <<>>]
    /\ xml_content \in Documents
    /\ bs_raises \in BOOLEAN
    /\ parsed = [raised |-> FALSE, tier |-> 0, urls |-> <<>>]
    /\ csv_file = NoFile
    /\ ingested = NotIngested
    /\ args = None
    /\ result = NoResult

SpecParseDoc == InitParseDoc /\ [][NextParse]_vars

(* Specification of the CSV ingestion: the uploaded file is drawn, then    *)
(* parse_csv is applied to it.                                             *)

FailSets == {{}, {","}, {",", ";"}, SupportedDelimiter}

Files ==
    [rows : SeqsUpTo(RowKind, MaxCsvRows), delim : FileDelimiter,
     utf8 : BOOLEAN, fails : FailSets]

InitCsv ==
    /\ AppIdle
    /\ text = <<>>
    /\ extracted = [branch |-> 0, xml |-> <<>>]
    /\ xml_content = <<>>
    /\ bs_raises = FALSE
    /\ parsed = [raised |-> FALSE, tier |-> 0, urls |-> <<>>]
    /\ csv_file \in Files
    /\ ingested = NotIngested
    /\ args = None
    /\ result = NoResult

Ingest ==
    /\ ingested.kind = "none"
    /\ ingested' = parse_csv(csv_file)
    /\ UNCHANGED <<csv_file, appVars, extractVars, parseVars, callVars>>

NextCsv == Ingest

SpecCsv == InitCsv /\ [][NextCsv]_vars

\* The state of the variables of the other specifications while a helper
\* function is applied.
FunctionsIdle ==
    /\ AppIdle
    /\ text = <<>>
    /\ extracted = [branch |-> 0, xml |-> <<>>]
    /\ xml_content = <<>>
    /\ bs_raises = FALSE
    /\ parsed = [raised |-> FALSE, tier |-> 0, urls |-> <<>>]
    /\ csv_file = NoFile
    /\ ingested = NotIngested

Done(value) == [done |-> TRUE, value |-> value]

(* Specification of the QA extraction: a table of up to MaxQaRows rows     *)
(* with its row labels and two selected columns are drawn, then            *)
(* extract_qa_pairs is applied.                                            *)

QaCells == Cells \cup {"y"}

QaRows == [{question_column, answer_column} -> QaCells]

\* The labels of a table of n rows: those of read_csv without index
\* column, integers taken from the file, strings taken from the file.
Indexes(n) ==
    {RangeIndex(n), [i \in 1..n |-> IntLabel(10 - i)], [i \in 1..n |-> StrLabel]}

QaTables ==
    {[rows |-> r, index |-> ix] :
        r \in SeqsUpTo(QaRows, MaxQaRows), ix \in Indexes(MaxQaRows)}

InitQa ==
    /\ FunctionsIdle
    /\ args \in [table : {[rows |-> t.rows, index |-> SubSeq(t.index, 1, Len(t.rows))] :
                              t \in QaTables},
                  question_col : {question_column, answer_column},
                  answer_col : {answer_column}]
    /\ result = NoResult

ExtractQa ==
    /\ ~result.done
    /\ result' = Done(extract_qa_pairs(args.table, args.question_col, args.answer_col))
    /\ UNCHANGED <<args, appVars, extractVars, parseVars, csvVars>>

NextQa == ExtractQa

SpecQa == InitQa /\ [][NextQa]_vars

(* Specification of the prompt's questionnaire text: a list of up to       *)
(* MaxPairs pairs is drawn, then the text of 1056-1063 is built.           *)

\* The number of pairs written into the prompt (1059, 1062, 1063).
PromptPairs == 50

Min(a, b) == IF a <= b THEN a ELSE b

\* One element of the join of 1057-1060:
\* "Question {id}: {question}\nAnswer: {answer}".
qa_block(pair) ==
    [kind |-> "pair", id |-> pair.id, question |-> pair.question, answer |-> pair.answer]

\* "... and {n} more question-answer pairs." (1063)
more_note(n) == [kind |-> "more", n |-> n]

\* The variant that never appends the note.
qa_text_no_note(qa_pairs) ==
    [j \in 1..Min(PromptPairs, Len(qa_pairs)) |-> qa_block(qa_pairs[j])]

\* qa_text (1057-1063) as the sequence of its parts, the separators left
\* out.
qa_text(qa_pairs) ==
    LET joined == [j \in 1..Min(PromptPairs, Len(qa_pairs)) |-> qa_block(qa_pairs[j])]
    IN IF Len(qa_pairs) > PromptPairs
       THEN Append(joined, more_note(Len(qa_pairs) - PromptPairs))
       ELSE joined

\* Lists of n pairs: ids with or without gaps, two questions alternating.
PairLists ==
    {[j \in 1..n |-> [id |-> gap * j,
                      question |-> IF (j + p) % 2 = 0 THEN "x" ELSE "y",
                      answer |-> "x"]] :
        n \in 0..MaxPairs, gap \in 1..2, p \in 0..1}

InitPrompt ==
    /\ FunctionsIdle
    /\ args \in [qa_pairs : PairLists]
    /\ result = NoResult

BuildPrompt ==
    /\ ~result.done
    /\ result' = Done(qa_text(args.qa_pairs))
    /\ UNCHANGED <<args, appVars, extractVars, parseVars, csvVars>>

NextPrompt == BuildPrompt

SpecPrompt == InitPrompt /\ [][NextPrompt]_vars

(* Specification of the folder tree: a list of up to MaxTreeUrls URL       *)
(* records is drawn, then create_folder_tree is applied.  A URL is its     *)
(* host and the pieces of its path between the slashes, the empty pieces   *)
(* included; the tree is the sequence of its nodes in order of creation,   *)
(* a node being the sequence of keys that leads to it from the root.       *)

\* The depth beyond which print_tree returns (978).
DepthLimit == 6

\* parsed.path.split('/'), 964-965
path_split(url) == url.path

\* The variant that keeps the empty pieces.
path_parts_keep_empty(url) == path_split(url)

\* path_parts, 965
path_parts(url) == SelectSeq(path_split(url), LAMBDA p : p # "")

\* part in current, 969
InTree(tree, node) == \E i \in 1..Len(tree) : tree[i] = node

\* The loop of 968-971 from the k-th part on.
RECURSIVE add_parts(_, _, _)
add_parts(tree, parts, k) ==
    IF k > Len(parts) THEN tree
    ELSE LET node == SubSeq(parts, 1, k)
         IN add_parts(IF InTree(tree, node) THEN tree ELSE Append(tree, node),
                      parts, k + 1)

\* The loop of 962-971 from the i-th record on.
RECURSIVE build_tree(_, _, _)
build_tree(urls, i, tree) ==
    IF i > Len(urls) THEN tree
    ELSE build_tree(urls, i + 1, add_parts(tree, path_parts(urls[i]), 1))

\* list(node.items()), 982: the children of a node in order of insertion.
items(tree, node) ==
    SelectSeq(tree, LAMBDA n : /\ Len(n) = Len(node) + 1
                               /\ SubSeq(n, 1, Len(node)) = node)

\* The variant that returns one level earlier.
depth_exceeded_from_limit(depth) == depth >= DepthLimit

\* depth > 6, 978
depth_exceeded(depth) == depth > DepthLimit

\* The variant that indents every entry by one unit.
entry_line_flat(key, depth) == [indent |-> 1, bullet |-> "BULLET ", key |-> key]

\* bullet + key, 985-986: "  " * depth, then the bullet character and a space, then the key.
entry_line(key, depth) == [indent |-> depth, bullet |-> "BULLET ", key |-> key]

\* print_tree, 976-991; print_items is its loop from the i-th item on.
RECURSIVE print_tree(_, _, _)
RECURSIVE print_items(_, _, _, _)
print_tree(tree, node, depth) ==
    IF depth_exceeded(depth) THEN <<>>
    ELSE print_items(tree, items(tree, node), 1, depth)

print_items(tree, its, i, depth) ==
    IF i > Len(its) THEN <<>>
    ELSE <<entry_line(its[i][Len(its[i])], depth)>>
         \o (IF items(tree, its[i]) # <<>>
             THEN print_tree(tree, its[i], depth + 1)
             ELSE <<>>)
         \o print_items(tree, its, i + 1, depth)

\* create_folder_tree, 958-993: the tree and the lines that are joined.
create_folder_tree(urls) ==
    LET tree == build_tree(urls, 1, <<>>)
    IN [tree |-> tree, tree_lines |-> print_tree(tree, <<>>, 0)]

Url(host, path) == [host |-> host, path |-> path]

\* URL records: the paths /a, /a/b, /a/c, /d, //a//b/, / and a chain of 8
\* parts.
TreeUrls ==
    {Url("x.com", <<"", "a">>),
     Url("x.com", <<"", "a", "b">>),
     Url("y.com", <<"", "a", "c">>),
     Url("x.com", <<"", "d">>),
     Url("x.com", <<"", "", "a", "", "b", "">>),
     Url("x.com", <<"", "">>),
     Url("x.com", <<"", "d", "b", "c", "d", "e", "f", "g", "h">>)}

InitTree ==
    /\ FunctionsIdle
    /\ args \in [urls : SeqsUpTo(TreeUrls, MaxTreeUrls)]
    /\ result = NoResult

FolderTree ==
    /\ ~result.done
    /\ result' = Done(create_folder_tree(args.urls))
    /\ UNCHANGED <<args, appVars, extractVars, parseVars, csvVars>>

NextTree == FolderTree

SpecTree == InitTree /\ [][NextTree]_vars

(* Specification of the node and edge graph of the function               *)
(* _create_visual_tree_html_removed, which nothing calls any more: a list  *)
(* of up to MaxTreeUrls URL records is drawn, then the nodes and the       *)
(* connections are computed.                                               *)

\* The depth beyond which traverse_tree returns (672).
GraphDepthLimit == 4

\* f"node_{depth}_{i}_{key...}", 681, as its three parts; the keys of the
\* records below hold neither slash nor space, so the replacements leave
\* them as they are.
node_id(depth, i, key) == [depth |-> depth, i |-> i, key |-> key]

\* The identifier "root" of 711 and 839.
root_id == [depth |-> -1, i |-> 0, key |-> "root"]

\* traverse_tree, 671-709, as the node_data records in order of creation;
\* traverse_items is its loop from the i-th item on (enumerate counts
\* from 0).
RECURSIVE traverse_tree(_, _, _, _)
RECURSIVE traverse_items(_, _, _, _, _)
traverse_tree(tree, node, parent_id, depth) ==
    IF depth > GraphDepthLimit THEN <<>>
    ELSE traverse_items(tree, items(tree, node), 1, parent_id, depth)

traverse_items(tree, its, i, parent_id, depth) ==
    IF i > Len(its) THEN <<>>
    ELSE LET id == node_id(depth, i - 1, its[i][Len(its[i])])
         IN <<[id |-> id, path |-> its[i], parent_id |-> parent_id]>>
            \o (IF items(tree, its[i]) # <<>>
                THEN traverse_tree(tree, its[i], id, depth + 1)
                ELSE <<>>)
            \o traverse_items(tree, its, i + 1, parent_id, depth)

\* connections, 697-701: every parent_id is a non-empty string.
connections_of(nodes) ==
    [j \in 1..Len(nodes) |-> [from |-> nodes[j].parent_id, to |-> nodes[j].id]]

\* The nodes that are rendered (root_nodes and their children, 711 and
\* 836-844), the root and the connections (669, 852).
visual_tree(urls) ==
    LET tree == build_tree(urls, 1, <<>>)
        nodes == traverse_tree(tree, <<>>, root_id, 0)
    IN [root |-> root_id, nodes |-> nodes, connections |-> connections_of(nodes)]

\* URL records: the paths /a, /a/b, /d/b, /a/b/c, /d/b/c, / and a chain of
\* 6 parts.
GraphUrls ==
    {Url("x.com", <<"", "a">>),
     Url("x.com", <<"", "a", "b">>),
     Url("x.com", <<"", "d", "b">>),
     Url("x.com", <<"", "a", "b", "c">>),
     Url("x.com", <<"", "d", "b", "c">>),
     Url("x.com", <<"", "">>),
     Url("x.com", <<"", "e", "f", "g", "h", "i", "j">>)}

InitGraph ==
    /\ FunctionsIdle
    /\ args \in [urls : SeqsUpTo(GraphUrls, MaxTreeUrls)]
    /\ result = NoResult

VisualTree ==
    /\ ~result.done
    /\ result' = Done(visual_tree(args.urls))
    /\ UNCHANGED <<args, appVars, extractVars, parseVars, csvVars>>

NextGraph == VisualTree

SpecGraph == InitGraph /\ [][NextGraph]_vars

(* Specification of the file-name stem: a table of up to MaxNameCols       *)
(* columns is drawn, then extract_client_name (996-1029) and the choice    *)
(* of filename_suffix (1552-1558) are applied.  A column is the kind of    *)
(* its name and its values; a string is a sequence of units followed by    *)
(* pad letters "A", a unit being one character or one of the words         *)
(* "http", "sitemap" and "timestamp".                                      *)

\* head(5), 1011
SampleSize == 5

\* len(v) < 100, 1013
MaxSampleLen == 100

\* [:50], 1026
MaxNameLen == 50

Str(units, pad) == [units |-> units, pad |-> pad]

UnitLen(u) ==
    IF u = "http" THEN 4 ELSE IF u = "sitemap" THEN 7
    ELSE IF u = "timestamp" THEN 15 ELSE 1

RECURSIVE UnitsLen(_)
UnitsLen(units) ==
    IF units = <<>> THEN 0 ELSE UnitLen(Head(units)) + UnitsLen(Tail(units))

\* len(v)
str_len(v) == UnitsLen(v.units) + v.pad

\* v.startswith('http'), 1013
startswith_http(v) == v.units # <<>> /\ Head(v.units) = "http"

RECURSIVE lstrip_units(_)
lstrip_units(units) ==
    IF units # <<>> /\ Head(units) = " " THEN lstrip_units(Tail(units)) ELSE units

RECURSIVE rstrip_units(_)
rstrip_units(units) ==
    IF units # <<>> /\ units[Len(units)] = " "
    THEN rstrip_units(SubSeq(units, 1, Len(units) - 1))
    ELSE units

\* str(client_name).strip(), 1022
str_strip(v) ==
    IF v.pad > 0 THEN Str(lstrip_units(v.units), v.pad)
    ELSE IF lstrip_units(v.units) = <<>> THEN Str(<<>>, 0)
    ELSE Str(lstrip_units(rstrip_units(v.units)), 0)

\* The characters of the class of 1024.
InvalidChars == {"<", ">", ":", "\"", "/", "\\", "|", "?", "*"}

\* re.sub of 1024: every character of the class is removed.
remove_invalid(v) == Str(SelectSeq(v.units, LAMBDA u : u \notin InvalidChars), v.pad)

\* client_name.replace(' ', '-'), 1026
replace_spaces(v) ==
    Str([i \in 1..Len(v.units) |-> IF v.units[i] = " " THEN "-" ELSE v.units[i]], v.pad)

\* client_name[:50], 1026, for the names below, whose units end before
\* the 50th character.
truncate(v) == Str(v.units, Min(v.pad, MaxNameLen - UnitsLen(v.units)))

\* df[col].dropna()
dropna(values) == SelectSeq(values, LAMBDA v : v # None)

\* 'client' in col_lower and 'name' in col_lower, 1002
is_client_name_col(col) == col.kind = "client name"

\* The test of 1009-1013 on a column.
is_name_col(col) ==
    /\ col.kind = "name"
    /\ LET sample_values == SubSeq(dropna(col.values), 1,
                                   Min(SampleSize, Len(dropna(col.values))))
       IN \E i \in 1..Len(sample_values) :
             /\ str_len(sample_values[i]) < MaxSampleLen
             /\ ~startswith_http(sample_values[i])

\* client_name_col after 999-1015: the position of the column, 0 for None.
client_name_col(columns) ==
    IF \E c \in 1..Len(columns) : is_client_name_col(columns[c])
    THEN Least({c \in 1..Len(columns) : is_client_name_col(columns[c])})
    ELSE IF \E c \in 1..Len(columns) : is_name_col(columns[c])
    THEN Least({c \in 1..Len(columns) : is_name_col(columns[c])})
    ELSE 0

StrSitemap == Str(<<"sitemap">>, 0)

\* extract_client_name, 996-1029, on the columns of the table.
extract_client_name_of(columns) ==
    LET col == client_name_col(columns)
    IN IF col = 0 THEN StrSitemap
       ELSE LET values == dropna(columns[col].values)
            IN IF values = <<>> \/ values[1] = Str(<<>>, 0) THEN StrSitemap
               ELSE truncate(replace_spaces(remove_invalid(str_strip(values[1]))))

\* f"sitemap_{timestamp}", 1555-1556
timestamp_name == Str(<<"sitemap", "_", "timestamp">>, 0)

\* The variant that always takes the client name.
filename_suffix_client_name(client_name) == client_name

\* filename_suffix, 1553-1558
filename_suffix(client_name) ==
    IF client_name = Str(<<>>, 0) \/ client_name = StrSitemap
    THEN timestamp_name
    ELSE client_name

\* The values of a column.
NameValues ==
    {<<>>,
     <<None>>,
     <<None, Str(<<"A">>, 0)>>,
     <<Str(<<" ", "A", " ", "A", " ">>, 0), Str(<<"A">>, 0)>>,
     <<Str(<<"<", "A", "/", "A">>, 0)>>,
     <<Str(<<"?", " ">>, 0)>>,
     <<Str(<<"<", " ", "A">>, 0)>>,
     <<Str(<<"A">>, 60)>>,
     <<Str(<<"A", " ">>, 49)>>,
     <<Str(<<"http", ":", "/", "/", "A">>, 0)>>,
     <<Str(<<"http", ":", "/", "/", "A">>, 0), Str(<<"A">>, 0)>>,
     <<Str(<<"A">>, 100)>>,
     <<Str(<<"sitemap">>, 0)>>}

NameColumns ==
    [kind : {"client name", "name", "other"}, values : NameValues]

InitName ==
    /\ FunctionsIdle
    /\ args \in [columns : SeqsUpTo(NameColumns, MaxNameCols)]
    /\ result = NoResult

FileNameStem ==
    /\ ~result.done
    /\ result' = Done(filename_suffix(extract_client_name_of(args.columns)))
    /\ UNCHANGED <<args, appVars, extractVars, parseVars, csvVars>>

NextName == FileNameStem

SpecName == InitName /\ [][NextName]_vars

(* Specification of the detection of the question and answer columns       *)
(* (1454-1492): the names of up to MaxColumns columns are drawn, no name   *)
(* twice, then the columns are detected.  A name is the sequence of its    *)
(* characters; a column is denoted by its position, 0 standing for None.   *)

\* str(col).lower() on the letters that the names below hold in upper case.
lower_char(c) ==
    CASE c = "Q" -> "q" [] c = "A" -> "a" [] c = "P" -> "p" [] c = "O" -> "o"
      [] c = "T" -> "t" [] c = "D" -> "d" [] OTHER -> c

lower(name) == [i \in 1..Len(name) |-> lower_char(name[i])]

\* keyword in col_lower
contains(col_lower, keyword) ==
    \E i \in 1..(Len(col_lower) - Len(keyword) + 1) :
        SubSeq(col_lower, i, i + Len(keyword) - 1) = keyword

kw_question == <<"q", "u", "e", "s", "t", "i", "o", "n">>

kw_answer == <<"a", "n", "s", "w", "e", "r">>

\* ['q', 'quest', 'pitanje'], 1470
question_keywords ==
    {<<"q">>, <<"q", "u", "e", "s", "t">>, <<"p", "i", "t", "a", "n", "j", "e">>}

\* ['a', 'ans', 'odgovor'], 1477
answer_keywords ==
    {<<"a">>, <<"a", "n", "s">>, <<"o", "d", "g", "o", "v", "o", "r">>}

\* The first column whose lower-case name holds one of the keywords, 0
\* without one.
first_col(columns, keywords) ==
    LET hits == {c \in 1..Len(columns) :
                    \E keyword \in keywords : contains(lower(columns[c]), keyword)}
    IN IF hits = {} THEN 0 ELSE Least(hits)

\* The detection of 1455-1492.
detect_columns(columns) ==
    LET q1 == first_col(columns, {kw_question})
        a1 == first_col(columns, {kw_answer})
        q2 == IF q1 = 0 THEN first_col(columns, question_keywords) ELSE q1
        a2 == IF a1 = 0 THEN first_col(columns, answer_keywords) ELSE a1
        q3 == IF q2 = 0 /\ Len(columns) > 0 THEN 1 ELSE q2
        a3 == IF a2 = 0 /\ Len(columns) > 1 THEN 2
              ELSE IF a2 = 0 THEN (IF Len(columns) > 0 THEN 1 ELSE 0)
              ELSE a2
    IN [question_column |-> q3, answer_column |-> a3,
        stopped |-> (q3 = 0 \/ a3 = 0)]

\* Column names: Question, Answer, Pitanje, Odgovor, Q&A, Topic, Reply,
\* Date.
ColumnNames ==
    {<<"Q", "u", "e", "s", "t", "i", "o", "n">>,
     <<"A", "n", "s", "w", "e", "r">>,
     <<"P", "i", "t", "a", "n", "j", "e">>,
     <<"O", "d", "g", "o", "v", "o", "r">>,
     <<"Q", "&", "A">>,
     <<"T", "o", "p", "i", "c">>,
     <<"R", "e", "p", "l", "y">>,
     <<"D", "a", "t", "e">>}

ColumnLists ==
    {cols \in SeqsUpTo(ColumnNames, MaxColumns) :
        \A i, j \in 1..Len(cols) : i # j => cols[i] # cols[j]}

InitColumns ==
    /\ FunctionsIdle
    /\ args \in [columns : ColumnLists]
    /\ result = NoResult

DetectColumns ==
    /\ ~result.done
    /\ result' = Done(detect_columns(args.columns))
    /\ UNCHANGED <<args, appVars, extractVars, parseVars, csvVars>>

NextColumns == DetectColumns

SpecColumns == InitColumns /\ [][NextColumns]_vars

----------------------------------------------------------------------------
(* Properties of the generate/regenerate handler (specification Spec).     *)

\* The last script run executed the button handler.
GenerateRan == outcome \in {"no_key", "no_pairs", "exception", "ok"}

\* What a response text contains, stated over positions.
HasFencedXml(t) ==
    \E i, j \in 1..Len(t) : i < j /\ t[i] = "FX" /\ t[j] \in {"F", "FX"}

HasDeclSpan(t) ==
    \E i, j \in 1..Len(t) : i < j /\ t[i] \in {"D", "DU"} /\ t[j] = "UC"

HasUrlsetSpan(t) ==
    \E i, j \in 1..Len(t) : i < j /\ t[i] = "UO" /\ t[j] = "UC"

NoSitemapXml(t) == ~HasFencedXml(t) /\ ~HasDeclSpan(t) /\ ~HasUrlsetSpan(t)

\* C1: over any sequence of generate/regenerate actions, a generate action
\* that does not succeed (missing credential, zero valid QA pairs, LLM
\* failure or any exception) leaves the stored sitemap result equal to the
\* one held before the action.
C1_FailedGenerateKeepsResult ==
    [][outcome' \in {"no_key", "no_pairs", "exception"}
          => sitemap_results' = sitemap_results]_vars

\* C2: when the LLM call of a generate action fails, an error is shown to
\* the user and no sitemap (XML text or URL list) is stored or displayed.
C2_LlmFailureReported ==
    llm.status = "failed" =>
        /\ "exception" \in ui.errors
        /\ sitemap_results = None
        /\ ui.view = "none"
        /\ ui.shown = None

C2_Witness ==
    /\ llm.status = "failed"
    /\ llm_calls = 1
    /\ outcome = "exception"

\* C3: a generate action calls the LLM only if the credential is present and
\* QA extraction yielded at least one pair; without the credential an error
\* is reported, with zero valid pairs a warning is reported, and in both
\* cases the LLM is not called and the handler returns through its reporting
\* branch, not through an exception.
C3_LlmOnlyWithKeyAndPairs ==
    /\ llm_calls > 0 =>
          /\ GEMINI_API_KEY
          /\ extract_qa_pairs(df, question_column, answer_column).qa_pairs # <<>>
    /\ (GenerateRan /\ ~GEMINI_API_KEY) =>
          /\ outcome = "no_key"
          /\ "no_api_key" \in ui.errors
          /\ llm_calls = 0
    /\ (/\ GenerateRan /\ GEMINI_API_KEY
        /\ extract_qa_pairs(df, question_column, answer_column).qa_pairs = <<>>) =>
          /\ outcome = "no_pairs"
          /\ "no_pairs" \in ui.warnings
          /\ ui.errors = {}
          /\ llm_calls = 0

C3_Witness ==
    /\ outcome = "no_pairs"
    /\ GEMINI_API_KEY
    /\ df # None
    /\ Len(df.rows) = 1
    /\ "no_pairs" \in ui.warnings
    /\ llm = NotCalled

IsLoc(x) == x \in LocTag

\* C4: when the LLM call succeeds but the response contains no recognizable
\* sitemap XML, the generate action does not abort: a result holding the
\* response text is stored, its URL list is empty or partial (never more
\* than the loc elements of the text), no error is reported, and an empty
\* URL list is displayed as the cannot-parse warning.
C4_DegenerateResponseStored ==
    (llm.status = "ok" /\ NoSitemapXml(llm.text)) =>
        /\ outcome = "ok"
        /\ sitemap_results # None
        /\ sitemap_results.sitemap = llm.text
        /\ Len(sitemap_results.parsed_urls) <= Len(SelectSeq(llm.text, IsLoc))
        /\ ui.errors = {}
        /\ ui.shown = sitemap_results
        /\ sitemap_results.parsed_urls = <<>> =>
              /\ ui.view = "unparsed"
              /\ "cannot_parse" \in ui.warnings

C4_Witness ==
    /\ llm.status = "ok"
    /\ llm.text # <<>>
    /\ NoSitemapXml(llm.text)
    /\ sitemap_results # None
    /\ sitemap_results.parsed_urls = <<>>
    /\ ui.view = "unparsed"

\* C5: a single generate action makes at most two LLM calls (the primary
\* call and at most one fallback) before it reports failure.
C5_AtMostTwoLlmCalls ==
    /\ llm_calls <= 2
    /\ llm.status = "failed" => (llm_calls \in 1..2 /\ outcome = "exception")

C5_Witness ==
    /\ llm.status = "failed"
    /\ llm_calls >= 1
    /\ "exception" \in ui.errors

----------------------------------------------------------------------------
(* Properties of the response extractor (specification SpecExtract).       *)

Extracted == extracted.branch # 0

IsFence(x) == x \in {"F", "FX"}
NotFenceNorSpace(x) == x \notin {"F", "FX", "WS"}
NotSpace(x) == x # "WS"
IsDeclaration(x) == x \in {"D", "DU"}

\* The trimmed content of the first fenced block marked xml.
FencedContent(t) ==
    LET i == CHOOSE i \in 1..Len(t) :
                 /\ t[i] = "FX"
                 /\ \A k \in 1..(i - 1) : t[k] # "FX"
        j == CHOOSE j \in (i + 1)..Len(t) :
                 /\ IsFence(t[j])
                 /\ \A k \in (i + 1)..(j - 1) : ~IsFence(t[k])
    IN strip(SubSeq(t, i + 1, j - 1))

\* The text from the first lexeme of Open through the first </urlset> after it.
SpanFrom(t, Open) ==
    LET i == CHOOSE i \in 1..Len(t) :
                 /\ t[i] \in Open
                 /\ \A k \in 1..(i - 1) : t[k] \notin Open
        j == CHOOSE j \in (i + 1)..Len(t) :
                 /\ t[j] = "UC"
                 /\ \A k \in (i + 1)..(j - 1) : t[k] # "UC"
    IN SubSeq(t, i, j)

\* C6: the extractor applies its strategies in a fixed priority order and
\* the first that matches decides the result: (1) the content of a fenced
\* block marked xml, else (2) the text from the first '<?xml' through the
\* first '</urlset>' with the stray fence markers stripped, else (3) the
\* text from '<urlset' through '</urlset>' with a declaration prepended,
\* else (4) the input.  Whitespace next to a stripped marker is not compared.
C6_PriorityOrder ==
    Extracted =>
        IF HasFencedXml(text)
        THEN extracted.xml \in {FencedContent(text), Declaration \o FencedContent(text)}
        ELSE IF HasDeclSpan(text)
        THEN /\ SelectSeq(extracted.xml, IsFence) = <<>>
             /\ SelectSeq(extracted.xml, NotSpace)
                   = SelectSeq(SpanFrom(text, {"D", "DU"}), NotFenceNorSpace)
        ELSE IF HasUrlsetSpan(text)
        THEN SelectSeq(extracted.xml, NotFenceNorSpace)
                = SelectSeq(Declaration \o SpanFrom(text, {"UO"}), NotFenceNorSpace)
        ELSE extracted.xml = text

\* C7 as stated: the extractor returns the input text unchanged exactly when
\* the text contains no xml-marked fenced block, no '<?xml ... </urlset>'
\* span and no '<urlset ... </urlset>' span.
C7_UnchangedExactlyWhenNoXml ==
    Extracted => ((extracted.xml = text) <=> NoSitemapXml(text))

\* C7 (amended): the extractor is total, returning a text for every input;
\* it returns the input unchanged whenever the text contains none of the
\* three patterns, and it takes its pass-through branch only then.
C7_PassThroughWhenNoXml ==
    Extracted =>
        /\ extracted.xml \in Seq(Token)
        /\ NoSitemapXml(text) => (extracted.xml = text /\ extracted.branch = 4)
        /\ extracted.branch = 4 => NoSitemapXml(text)

C7_Witness ==
    /\ extracted.branch = 4
    /\ extracted.xml = text
    /\ \E i, j \in 1..Len(text) : i < j /\ text[i] = "UC" /\ text[j] = "UO"

\* C8 as stated: for a response with a fenced block marked xml, the standard
\* declaration is prepended iff the content lacks an XML declaration, so the
\* returned text has exactly one declaration (given content with at most one).
C8_ExactlyOneDeclaration ==
    (Extracted /\ HasFencedXml(text)) =>
        LET c == FencedContent(text)
        IN /\ extracted.xml = (IF SelectSeq(c, IsDeclaration) = <<>>
                               THEN Declaration \o c ELSE c)
           /\ Len(SelectSeq(c, IsDeclaration)) <= 1
                 => Len(SelectSeq(extracted.xml, IsDeclaration)) = 1

\* C8 (amended): for a response with a fenced block marked xml, the
\* extractor returns the block's trimmed content with the standard
\* declaration prepended iff the content does not begin with '<?xml'
\* (compared case-sensitively), so the returned text always begins with the
\* declaration.
C8_DeclarationPrependedUnlessLeading ==
    (Extracted /\ HasFencedXml(text)) =>
        LET c == FencedContent(text)
        IN /\ extracted.xml = (IF c # <<>> /\ c[1] = "D" THEN c ELSE Declaration \o c)
           /\ extracted.xml[1] = "D"

C8_Witness ==
    /\ extracted.branch = 1
    /\ HasFencedXml(text)
    /\ FencedContent(text) = <<"UO", "UC">>
    /\ extracted.xml = <<"D", "WS", "UO", "UC">>

\* A text that is nothing but a sitemap document: optional declaration, the
\* urlset element with element content and whitespace only, and whitespace
\* around it.
PureSitemap(t) ==
    LET s == strip(t)
        core == IF s # <<>> /\ s[1] = "D" THEN lstrip(Tail(s)) ELSE s
    IN /\ Len(core) >= 2
       /\ core[1] = "UO"
       /\ core[Len(core)] = "UC"
       /\ \A k \in 2..(Len(core) - 1) : core[k] \in {"T", "WS"}

HasLeadingDeclaration(t) == strip(t) # <<>> /\ strip(t)[1] = "D"

\* C9 as stated: the extractor applied to a pure valid sitemap XML document
\* returns it unchanged, modulo leading/trailing whitespace.
C9_PureXmlUnchanged ==
    (Extracted /\ PureSitemap(text)) => strip(extracted.xml) = strip(text)

\* C9 (amended): the extractor applied to a pure sitemap XML document that
\* begins with an XML declaration returns it unchanged modulo
\* leading/trailing whitespace; a pure document without a declaration is
\* returned with the standard declaration prepended.
C9_PureXmlUnchangedWithDeclaration ==
    (Extracted /\ PureSitemap(text)) =>
        IF HasLeadingDeclaration(text)
        THEN extracted.xml = strip(text)
        ELSE extracted.xml = Declaration \o strip(text)

C9_Witness ==
    /\ extracted.branch = 2
    /\ PureSitemap(text)
    /\ text # strip(text)
    /\ extracted.xml = strip(text)

----------------------------------------------------------------------------
(* Properties of the sitemap XML parser (specification SpecParse).         *)

Parsed == parsed.tier # 0

UrlRecords ==
    [url : {LocText(x) : x \in LocTag},
     lastmod : {""} \cup {FieldText(x) : x \in LastmodTag},
     changefreq : {""} \cup {FieldText(x) : x \in ChangefreqTag},
     priority : {""} \cup {FieldText(x) : x \in PriorityTag}]

\* C10: the parser never fails: for every input text it returns a list of
\* URL records without raising, and the list is empty when the text holds
\* no loc element.
C10_ParserTotal ==
    Parsed =>
        /\ ~parsed.raised
        /\ parsed.urls \in Seq(UrlRecords)
        /\ SelectSeq(xml_content, IsLoc) = <<>> => parsed.urls = <<>>

C10_Witness ==
    /\ parsed.tier = 3
    /\ ~parsed.raised
    /\ xml_content # <<>>
    /\ parsed.urls = <<>>

\* C11: the parser returns exactly the result of the first tier that
\* completes without raising: tier 1 unless BeautifulSoup raised, tier 2
\* only if tier 1 raised, tier 3 only if tier 2 (ET.fromstring) raised as
\* well; the returned list is that tier's records alone, also when it is
\* empty and a later tier would have found records.
C11_FirstCompletedTier ==
    Parsed =>
        /\ parsed.tier = 1 <=> ~bs_raises
        /\ parsed.tier = 2 <=> bs_raises /\ WellFormed(xml_content)
        /\ parsed.tier = 3 <=> bs_raises /\ ~WellFormed(xml_content)
        /\ parsed.tier = 1 => parsed.urls = bs4_urls(xml_content)
        /\ parsed.tier = 2 => parsed.urls = et_urls(xml_content)
        /\ parsed.tier = 3 => parsed.urls = regex_urls(xml_content)

\* Tier 2 completes with no record on a text in which tier 3 would have
\* found one, and the empty list is returned.
C11_Witness ==
    /\ parsed.tier = 2
    /\ parsed.urls = <<>>
    /\ regex_urls(xml_content) # <<>>

\* The url entries of a sitemap document are not nested: the first tag
\* after a url start tag is a url end tag.
FlatSitemap(t) ==
    /\ WellFormed(t)
    /\ t[RootIndex(t)] = "UO"
    /\ \A i \in 1..Len(t) :
           t[i] = "URLO" => t[IndexFrom(t, OpenTag \cup CloseTag, i + 1)] = "URLC"

\* The lexeme of K among the children of the url entry that starts at i.
ChildIn(t, i, K) ==
    LET e == IndexFrom(t, {"URLC"}, i + 1)
        I == {j \in (i + 1)..(e - 1) : t[j] \in K}
    IN IF I = {} THEN "" ELSE t[CHOOSE j \in I : \A m \in I : j <= m]

UrlsWithLoc(t) == {i \in 1..Len(t) : t[i] = "URLO" /\ ChildIn(t, i, LocTag) # ""}

Trimmed(tok) == SelectSeq(ElementText(tok), NotSpace)

TextOrEmpty(tok) == IF tok = "" THEN "" ELSE Trimmed(tok)[1]

\* C12: for a parsed sitemap document (tier 1 or tier 2 completed) the
\* records are, in document order, one per url element that has a loc
\* child and none for the others; the fields url, lastmod, changefreq and
\* priority hold the trimmed text of the child of that name, and the
\* empty string where an optional child is absent.
C12_OneRecordPerUrlWithLoc ==
    (Parsed /\ FlatSitemap(xml_content)) =>
        LET t == xml_content
            U == UrlsWithLoc(t)
            Rank(i) == Cardinality({j \in U : j <= i})
        IN /\ parsed.tier \in {1, 2}
           /\ Len(parsed.urls) = Cardinality(U)
           /\ \A i \in U :
                  parsed.urls[Rank(i)] =
                      [url |-> TextOrEmpty(ChildIn(t, i, LocTag)),
                       lastmod |-> TextOrEmpty(ChildIn(t, i, LastmodTag)),
                       changefreq |-> TextOrEmpty(ChildIn(t, i, ChangefreqTag)),
                       priority |-> TextOrEmpty(ChildIn(t, i, PriorityTag))]

\* A document with a url element without loc before one with loc and
\* lastmod but without priority: one record, priority empty.
C12_Witness ==
    /\ Parsed
    /\ FlatSitemap(xml_content)
    /\ Cardinality(UrlsWithLoc(xml_content)) = 1
    /\ Len(SelectSeq(xml_content, LAMBDA x : x = "URLO")) = 2
    /\ Len(parsed.urls) = 1
    /\ parsed.urls[1].lastmod = "2024-01-01"
    /\ parsed.urls[1].priority = ""
    /\ xml_content[2] = "URLO" /\ xml_content[3] = "URLC"

\* The url entries of a document of Documents: the start positions of the
\* entries lie at nesting-free positions because the leaves never nest.
EntryStarts(t) == {i \in 1..Len(t) : t[i] = "URLO"}

\* The entry that starts at i ends with its own end tag: no other url
\* start tag comes before the next url end tag.
EntryClosed(t, i) ==
    LET n == IndexFrom(t, {"URLO", "URLC", "UC"}, i + 1)
    IN n # 0 /\ t[n] = "URLC"

EntryLoc(t, i) ==
    LET n == IndexFrom(t, {"URLO", "URLC", "UC"}, i + 1)
        I == {j \in (i + 1)..(n - 1) : t[j] \in LocTag}
    IN IF I = {} THEN "" ELSE t[CHOOSE j \in I : TRUE]

OneMalformedEntry(t) ==
    Cardinality({i \in EntryStarts(t) : ~EntryClosed(t, i)}) = 1

\* C13: when one url entry of a sitemap lacks its end tag, the returned
\* list still holds a record for every well-formed sibling entry (an
\* entry with its loc and its end tag): for each address, at least as
\* many records as well-formed entries with that address.
C13_SiblingsOfMalformedEntry ==
    (Parsed /\ OneMalformedEntry(xml_content)) =>
        LET t == xml_content
            Good == {i \in EntryStarts(t) : EntryClosed(t, i) /\ EntryLoc(t, i) # ""}
        IN \A x \in LocTag :
              Len(SelectSeq(parsed.urls, LAMBDA r : r.url = LocText(x)))
                  >= Cardinality({i \in Good : EntryLoc(t, i) = x})

\* An entry without end tag next to a well-formed one, BeautifulSoup
\* raising and ET.fromstring rejecting the text: the regex tier returns
\* the sibling's record.
C13_Witness ==
    /\ parsed.tier = 3
    /\ OneMalformedEntry(xml_content)
    /\ \E i \in EntryStarts(xml_content) :
           /\ EntryClosed(xml_content, i)
           /\ EntryLoc(xml_content, i) = "LOCB"
    /\ \E k \in 1..Len(parsed.urls) : parsed.urls[k].url = LocText("LOCB")

\* The same under tier 1: the recovering parser keeps the sibling.
C13_WitnessRecovering ==
    /\ parsed.tier = 1
    /\ OneMalformedEntry(xml_content)
    /\ \E i \in EntryStarts(xml_content) :
           /\ EntryClosed(xml_content, i)
           /\ EntryLoc(xml_content, i) = "LOCB"
    /\ \E k \in 1..Len(parsed.urls) : parsed.urls[k].url = LocText("LOCB")

----------------------------------------------------------------------------
(* CSV ingestion, C14-C20.                                                 *)

Ingested == ingested.kind # "none"

FileLines == split_lines(csv_file.rows, csv_file.delim)

\* The header row as C14 states it: the first line with a keyword and at
\* least 2 delimiter characters of one supported delimiter, else the first
\* line with at least 2 delimiter characters, else line 0.
ClaimedHeaderRow(lines) ==
    LET Multi == {i \in 1..Len(lines) :
                    \E c \in SupportedDelimiter : lines[i].count[c] >= 2}
        Keyword == {i \in Multi : lines[i].kw}
    IN IF Keyword # {} THEN Least(Keyword) - 1
       ELSE IF Multi # {} THEN Least(Multi) - 1
       ELSE 0

\* C14: header-row detection selects the first line that contains
\* 'section', 'question' or 'answer' and at least 2 delimiter characters,
\* for any of the supported delimiters (comma, semicolon, tab, pipe); else
\* the first line with at least 2 delimiter characters; else line 0.
C14_HeaderRowAnyDelimiter ==
    (Ingested /\ ingested.error # "empty") =>
        ingested.header_row_index = ClaimedHeaderRow(FileLines)

\* rows is n rows "meta", then the header hdr, then rows dat only.
MetaHeaderData(rows, n, hdr, dat) ==
    /\ Len(rows) > n
    /\ \A i \in 1..Len(rows) :
          rows[i] = (IF i <= n THEN "meta" ELSE IF i = n + 1 THEN hdr ELSE dat)

\* C15: a comma-separated file of N metadata lines, the header
\* 'Question,Answer' and M data lines is ingested as a table of exactly M
\* rows and 2 columns (N in {0, 1, 3}; M as far as MaxCsvRows allows).
C15_MetadataThenTwoColumns ==
    \A n \in {0, 1, 3} :
        (/\ Ingested
         /\ MetaHeaderData(csv_file.rows, n, "hdr2", "dat2")
         /\ csv_file.delim = "," /\ csv_file.utf8 /\ csv_file.fails = {})
        => /\ ingested.kind = "table"
           /\ Len(ingested.columns) = 2
           /\ ingested.nrows = Len(csv_file.rows) - n - 1

\* The (encoding, delimiter) pairs of parse_options, as properties of a
\* file: UTF-8 bytes with any supported delimiter, other bytes with comma
\* or semicolon.
SupportedPair(file) ==
    \/ file.utf8 /\ file.delim \in SupportedDelimiter
    \/ ~file.utf8 /\ file.delim \in {",", ";"}

Logical(r) == <<r.kind, r.columns, r.nrows>>

\* C16: for every supported (encoding, delimiter) pair, a file written
\* with that pair and carrying one leading metadata row is ingested as the
\* same logical table (header names, row count) as its UTF-8/comma version.
C16_SameTableForEveryPair ==
    \A hdr \in {"hdr3", "hdr2"} :
        (/\ Ingested
         /\ MetaHeaderData(csv_file.rows, 1, hdr, IF hdr = "hdr3" THEN "dat3" ELSE "dat2")
         /\ SupportedPair(csv_file) /\ csv_file.fails = {})
        => Logical(ingested)
             = Logical(parse_csv([csv_file EXCEPT !.delim = ",", !.utf8 = TRUE]))

NonBlankAfter(lines, h) == \E i \in (h + 2)..Len(lines) : ~lines[i].blank

\* C17: if the detected header row is not line 0 and no non-blank line
\* follows it, ingestion fails with the no-data-after-header error and
\* returns no table; if a non-blank line follows it, or the header row is
\* line 0, ingestion never fails with that error.
C17_NoDataAfterHeader ==
    Ingested =>
        LET h == ingested.header_row_index
            nodata == ~is_empty(FileLines) /\ h > 0 /\ ~NonBlankAfter(FileLines, h)
        IN /\ nodata => /\ ingested.kind = "error"
                        /\ ingested.error = "no_data_after_header"
                        /\ ingested.attempts = <<>>
           /\ ~nodata => ingested.error # "no_data_after_header"

\* A metadata line, then the header, then nothing but a blank line.
C17_Witness ==
    /\ ingested.error = "no_data_after_header"
    /\ ingested.header_row_index = 1
    /\ Len(csv_file.rows) = 3
    /\ csv_file.rows[3] = "blank"

\* The order of the candidates as C18 states it.
CandidateOrder ==
    <<<<"utf-8", ",">>, <<"utf-8", ";">>, <<"utf-8", "\t">>, <<"utf-8", "|">>,
      <<"latin-1", ",">>, <<"latin-1", ";">>, <<"iso-8859-1", ",">>,
      <<"cp1252", ",">>>>

\* Reading the whole file again as candidate k, the rows before the
\* detected header row skipped.
Try(k) ==
    read_csv(csv_file, CandidateOrder[k][1], CandidateOrder[k][2],
             ingested.header_row_index)

Yields(k) == Try(k).error = "" /\ Len(Try(k).columns) >= 1

C19_ErrorsNeverAbort ==
    (Ingested /\ ingested.attempts # <<>>) =>
        /\ \A i \in 1..Len(ingested.attempts) :
              (i <= 8 /\ Try(i).error # "") => i < Len(ingested.attempts)
        /\ ingested.kind = "error" => Len(ingested.attempts) = 9

\* C19 amended: a decoding error or a parse error other than pandas'
\* EmptyDataError never aborts ingestion; EmptyDataError aborts it at once
\* with the empty-file error; otherwise ingestion fails only after every
\* candidate and the automatic detection have failed.
C19_ErrorsExceptEmptyDataMoveOn ==
    (Ingested /\ ingested.attempts # <<>>) =>
        LET n == Len(ingested.attempts)
        IN /\ \A i \in 1..n :
                 (i <= 8 /\ Try(i).error \notin {"", "EmptyDataError"}) => i < n
           /\ \A i \in 1..n : (i <= 8 /\ Try(i).error = "EmptyDataError") => i = n
           /\ ingested.kind = "error" =>
                 \/ n = 9 /\ ingested.error = "unparseable"
                 \/ /\ n <= 8
                    /\ Try(n).error = "EmptyDataError"
                    /\ ingested.error = "empty_data"

\* Four decoding errors are passed over, then EmptyDataError on the fifth
\* candidate ends the ingestion.
C19_Witness ==
    /\ ingested.kind = "error"
    /\ ingested.error = "empty_data"
    /\ ingested.attempts = <<1, 2, 3, 4, 5>>

IngestErrors == {"empty", "no_data_after_header", "empty_data", "unparseable"}

\* C20: ingestion either returns a table with at least 1 column (rows or
\* no rows) or fails with an ingest error, and never returns a table
\* without columns; when every candidate and the automatic detection fail,
\* the error is the unparseable error with the last candidate's error.
C20_TableOrIngestError ==
    Ingested =>
        /\ ingested.kind \in {"table", "error"}
        /\ ingested.kind = "table" => Len(ingested.columns) >= 1 /\ ingested.error = ""
        /\ ingested.kind = "error" => ingested.error \in IngestErrors /\ ingested.columns = <<>>
        /\ (/\ ~is_empty(FileLines)
            /\ ~no_data_after_header(FileLines, header_row_index(FileLines))
            /\ \A k \in 1..8 : Try(k).error \in {"UnicodeDecodeError", "ParserError"}
            /\ read_csv_sniff(csv_file).error # "")
           => /\ ingested.kind = "error"
              /\ ingested.error = "unparseable"
              /\ ingested.last_error = Try(8).error

\* Everything failed, first with decoding errors, last with a parse error.
C20_Witness ==
    /\ ingested.error = "unparseable"
    /\ ingested.attempts = <<1, 2, 3, 4, 5, 6, 7, 8, 9>>
    /\ Try(1).error = "UnicodeDecodeError"
    /\ ingested.last_error = "ParserError"

----------------------------------------------------------------------------
(* QA extraction, C21-C22.                                                 *)

\* Neither missing nor blank after trimming.
NonBlank(v) == v # NaN /\ SelectSeq(<<v>>, LAMBDA c : c \in {"", " "}) = <<>>

\* The positions of the rows whose two selected values are non-blank.
KeptRows ==
    {k \in 1..Len(args.table.rows) :
        /\ NonBlank(args.table.rows[k][args.question_col])
        /\ NonBlank(args.table.rows[k][args.answer_col])}

\* The position of the row that the j-th pair of the output comes from.
SourceRow(j) == CHOOSE k \in KeptRows : Cardinality({m \in KeptRows : m <= k}) = j

TrimmedCell(v) == IF v = " x " THEN "x" ELSE v

\* C21: for any table and any two selected columns the extractor outputs
\* exactly the rows whose question and answer are both non-blank after
\* trimming (a missing value is blank), in source row order and trimmed:
\* the output is as long as there are such rows.
C21_ExactlyNonBlankRows ==
    result.done =>
        /\ ~result.value.raised
        /\ Len(result.value.qa_pairs) = Cardinality(KeptRows)
        /\ \A j \in 1..Len(result.value.qa_pairs) :
              LET row == args.table.rows[SourceRow(j)]
              IN /\ result.value.qa_pairs[j].question = TrimmedCell(row[args.question_col])
                 /\ result.value.qa_pairs[j].answer = TrimmedCell(row[args.answer_col])

\* C22: the id of every pair is the 0-based position of its source row
\* plus 1, so the ids increase strictly along the output.
C22_IdIsRowPositionPlusOne ==
    (result.done /\ ~result.value.raised) =>
        LET out == result.value.qa_pairs
        IN /\ \A j \in 1..Len(out) : out[j].id = (SourceRow(j) - 1) + 1
           /\ \A i, j \in 1..Len(out) : i < j => out[i].id < out[j].id

----------------------------------------------------------------------------
(* Prompt text, C23.                                                       *)

PairParts == SelectSeq(result.value, LAMBDA part : part.kind = "pair")

MoreNotes == SelectSeq(result.value, LAMBDA part : part.kind = "more")

\* C23: the prompt holds at most the first 50 pairs, in order; the note
\* about omitted pairs is there exactly when there are more than 50 pairs,
\* and its number is the number of pairs minus 50.
C23_FirstFiftyPairsAndNote ==
    result.done =>
        LET n == Len(args.qa_pairs)
        IN /\ Len(PairParts) = (IF n <= 50 THEN n ELSE 50)
           /\ \A j \in 1..Len(PairParts) :
                 /\ result.value[j].kind = "pair"
                 /\ PairParts[j].id = args.qa_pairs[j].id
                 /\ PairParts[j].question = args.qa_pairs[j].question
                 /\ PairParts[j].answer = args.qa_pairs[j].answer
           /\ (MoreNotes # <<>>) <=> (n > 50)
           /\ MoreNotes # <<>> => MoreNotes = <<[kind |-> "more", n |-> n - 50]>>

C23_Witness ==
    /\ result.done
    /\ Len(args.qa_pairs) = 52
    /\ MoreNotes = <<[kind |-> "more", n |-> 2]>>
    /\ Len(PairParts) = 50

----------------------------------------------------------------------------
(* Folder tree, C24-C26.                                                   *)

NonEmptyPieces(url) == SelectSeq(url.path, LAMBDA piece : piece # "")

\* The distinct non-empty prefixes of the paths of the records.
AllPathPrefixes ==
    UNION {{SubSeq(NonEmptyPieces(args.urls[i]), 1, k) :
               k \in 1..Len(NonEmptyPieces(args.urls[i]))} : i \in 1..Len(args.urls)}

TreeNodes == {result.value.tree[i] : i \in 1..Len(result.value.tree)}

Lines == result.value.tree_lines

\* The first line is not indented and no line is indented by more than one
\* unit beyond the line above it.
WellIndented ==
    \A j \in 1..Len(Lines) :
        IF j = 1 THEN Lines[j].indent = 0
        ELSE Lines[j].indent \in 0..(Lines[j - 1].indent + 1)

\* The nearest line above line j that is indented by one unit less.
ParentLine(j) ==
    CHOOSE i \in 1..(j - 1) :
        /\ Lines[i].indent = Lines[j].indent - 1
        /\ \A m \in (i + 1)..(j - 1) : Lines[m].indent # Lines[j].indent - 1

\* The node that line j stands for, read off the indentation.
RECURSIVE NodeOfLine(_)
NodeOfLine(j) ==
    IF Lines[j].indent = 0 THEN <<Lines[j].key>>
    ELSE Append(NodeOfLine(ParentLine(j)), Lines[j].key)

LinesOf(node) == {j \in 1..Len(Lines) : NodeOfLine(j) = node}

Children(node) ==
    {n \in TreeNodes : Len(n) = Len(node) + 1 /\ SubSeq(n, 1, Len(node)) = node}

Position(node) == CHOOSE i \in 1..Len(result.value.tree) : result.value.tree[i] = node

FourUrls ==
    <<Url("x.com", <<"", "a">>), Url("x.com", <<"", "a", "b">>),
      Url("y.com", <<"", "a", "c">>), Url("x.com", <<"", "d">>)>>

\* C24: the tree has exactly one node per distinct non-empty path prefix of
\* the records (host and empty pieces ignored, a piece that is there is
\* reused), the printed tree has one entry line per node that the depth cap
\* of the printer lets through, and the records /a, /a/b, /a/c, /d give a
\* root with the children a and d, a with the leaves b and c, and 4 lines.
C24_OneNodePerPathPrefix ==
    result.done =>
        /\ TreeNodes = AllPathPrefixes
        /\ Len(result.value.tree) = Cardinality(AllPathPrefixes)
        /\ WellIndented
        /\ Len(Lines) = Cardinality({n \in TreeNodes : Len(n) - 1 <= DepthLimit})
        /\ \A n \in TreeNodes : Len(n) - 1 <= DepthLimit => Cardinality(LinesOf(n)) = 1
        /\ args.urls = FourUrls =>
              /\ Children(<<>>) = {<<"a">>, <<"d">>}
              /\ Children(<<"a">>) = {<<"a", "b">>, <<"a", "c">>}
              /\ Children(<<"a", "b">>) = {}
              /\ Children(<<"a", "c">>) = {}
              /\ Children(<<"d">>) = {}
              /\ Len(Lines) = 4

C24_Witness ==
    /\ result.done
    /\ args.urls = FourUrls
    /\ Len(Lines) = 4
    /\ Cardinality(TreeNodes) = 4

\* The lines stand for nodes of the tree, each node for one line at most,
\* and siblings stand in the order in which they were first seen.
DepthFirstFirstSeen ==
    /\ WellIndented
    /\ \A j \in 1..Len(Lines) : NodeOfLine(j) \in TreeNodes
    /\ \A i, j \in 1..Len(Lines) :
          /\ i # j => NodeOfLine(i) # NodeOfLine(j)
          /\ (/\ i < j
              /\ Lines[i].indent = Lines[j].indent
              /\ SubSeq(NodeOfLine(i), 1, Lines[i].indent)
                    = SubSeq(NodeOfLine(j), 1, Lines[j].indent))
             => Position(NodeOfLine(i)) < Position(NodeOfLine(j))

\* What stands before the key of line j.
Connector(j) == [indent |-> Lines[j].indent, bullet |-> Lines[j].bullet]

IsLastChild(j) ==
    \A i \in 1..Len(Lines) :
        (Len(NodeOfLine(i)) = Len(NodeOfLine(j))
         /\ SubSeq(NodeOfLine(i), 1, Lines[i].indent)
               = SubSeq(NodeOfLine(j), 1, Lines[j].indent)) => i <= j

\* C25: the entries are printed depth-first with the children in first-seen
\* order, the last child of a parent has a connector or indent different
\* from that of its earlier siblings, and an internal node has a marker
\* different from that of a leaf.
C25_ConnectorsAndMarkers ==
    result.done =>
        /\ DepthFirstFirstSeen
        /\ \A i, j \in 1..Len(Lines) :
              (/\ i < j
               /\ IsLastChild(j)
               /\ Lines[i].indent = Lines[j].indent
               /\ SubSeq(NodeOfLine(i), 1, Lines[i].indent)
                     = SubSeq(NodeOfLine(j), 1, Lines[j].indent))
              => Connector(i) # Connector(j)
        /\ \A i, j \in 1..Len(Lines) :
              (Children(NodeOfLine(i)) # {} /\ Children(NodeOfLine(j)) = {})
              => Lines[i].bullet # Lines[j].bullet

\* C25 as the code has it: depth-first with the children in first-seen
\* order, every entry being one indentation unit per level below the top,
\* the same bullet and the key, for the last child as for its earlier
\* siblings and for an internal node as for a leaf.
C25_DepthFirstSameBullet ==
    result.done =>
        /\ DepthFirstFirstSeen
        /\ \A j \in 1..Len(Lines) :
              /\ Lines[j].indent = Len(NodeOfLine(j)) - 1
              /\ Lines[j].bullet = Lines[1].bullet

C25_Witness ==
    /\ result.done
    /\ args.urls = FourUrls
    /\ Lines = <<[indent |-> 0, bullet |-> "BULLET ", key |-> "a"],
                 [indent |-> 1, bullet |-> "BULLET ", key |-> "b"],
                 [indent |-> 1, bullet |-> "BULLET ", key |-> "c"],
                 [indent |-> 0, bullet |-> "BULLET ", key |-> "d"]>>

\* C26: the printing is capped at depth 6: it ends without error, there is
\* no entry line for a node of more than 6 path segments, and every node of
\* 6 segments or fewer is printed exactly once.
C26_CappedAtSixSegments ==
    result.done =>
        /\ WellIndented
        /\ \A j \in 1..Len(Lines) : Len(NodeOfLine(j)) <= 6
        /\ \A n \in TreeNodes : Len(n) <= 6 => Cardinality(LinesOf(n)) = 1

\* C26 as the code has it: the depth of a top-level entry is 0, so the
\* entries of 7 segments or fewer are printed exactly once and those of
\* more than 7 segments are left out.
C26_CappedAtSevenSegments ==
    result.done =>
        /\ WellIndented
        /\ \A j \in 1..Len(Lines) : Len(NodeOfLine(j)) <= 7
        /\ \A n \in TreeNodes : Len(n) <= 7 => Cardinality(LinesOf(n)) = 1

C26_Witness ==
    /\ result.done
    /\ \E n \in TreeNodes : Len(n) = 8
    /\ \E j \in 1..Len(Lines) : Len(NodeOfLine(j)) = 7
    /\ \A j \in 1..Len(Lines) : Len(NodeOfLine(j)) < 8

----------------------------------------------------------------------------
(* Node and edge graph, C27.                                               *)

GraphNodes == result.value.nodes

GraphEdges == result.value.connections

\* The identifier given to a path prefix, the root for the empty one.
IdOf(path) ==
    IF path = <<>> THEN result.value.root
    ELSE GraphNodes[CHOOSE j \in 1..Len(GraphNodes) : GraphNodes[j].path = path].id

\* No two distinct path prefixes have the same node identifier.
DistinctIds ==
    \A i, j \in 1..Len(GraphNodes) :
        GraphNodes[i].path # GraphNodes[j].path => GraphNodes[i].id # GraphNodes[j].id

\* C27: the graph has exactly one node per distinct path prefix and one
\* synthetic root, exactly one edge from each parent to each of its
\* immediate children, no edge twice, and no two distinct path prefixes
\* with the same node identifier.
C27_OneNodeOneEdgeDistinctIds ==
    result.done =>
        /\ {GraphNodes[j].path : j \in 1..Len(GraphNodes)} = AllPathPrefixes
        /\ Len(GraphNodes) = Cardinality(AllPathPrefixes)
        /\ \A j \in 1..Len(GraphNodes) : GraphNodes[j].id # result.value.root
        /\ {GraphEdges[j] : j \in 1..Len(GraphEdges)}
              = {[from |-> IdOf(SubSeq(p, 1, Len(p) - 1)), to |-> IdOf(p)] :
                    p \in AllPathPrefixes}
        /\ \A i, j \in 1..Len(GraphEdges) : i # j => GraphEdges[i] # GraphEdges[j]
        /\ DistinctIds

----------------------------------------------------------------------------
(* File-name stem, C28.                                                    *)

\* A string as the plain sequence of its units.
Flat(v) == v.units \o [i \in 1..v.pad |-> "A"]

Stem == Flat(result.value)

\* The first non-null value of the chosen column, None without one.
DetectedName ==
    LET col == client_name_col(args.columns)
    IN IF col = 0 THEN None
       ELSE LET named == {i \in 1..Len(args.columns[col].values) :
                             args.columns[col].values[i] # None}
            IN IF named = {} THEN None
               ELSE args.columns[col].values[CHOOSE i \in named : \A m \in named : i <= m]

Forbidden == {"<", ">", ":", "\"", "/", "\\", "|", "?", "*"}

WithoutForbidden(chars) == SelectSeq(chars, LAMBDA c : c \notin Forbidden)

\* The longest prefix of at most 50 characters.
AtMostFifty(chars) ==
    SubSeq(chars, 1,
           CHOOSE k \in 0..Len(chars) :
               /\ UnitsLen(SubSeq(chars, 1, k)) <= 50
               /\ k < Len(chars) => UnitsLen(SubSeq(chars, 1, k + 1)) > 50)

\* Without the spaces before the first and after the last other character.
Trim(chars) ==
    LET others == {i \in 1..Len(chars) : chars[i] # " "}
    IN IF others = {} THEN <<>>
       ELSE SubSeq(chars, CHOOSE i \in others : \A m \in others : i <= m,
                          CHOOSE i \in others : \A m \in others : i >= m)

Hyphenated(chars) == [i \in 1..Len(chars) |-> IF chars[i] = " " THEN "-" ELSE chars[i]]

StemIsSafe ==
    /\ Stem # <<>>
    /\ \A i \in 1..Len(Stem) : Stem[i] \notin Forbidden

\* C28: the file-name stem is never empty and holds none of the characters
\* < > : " / \ | ? *; it is the detected client name without those
\* characters, cut to at most 50 characters; without a detected name, or
\* with an empty sanitized name, it is the timestamp-based name.
C28_StemIsNameWithoutForbidden ==
    result.done =>
        /\ StemIsSafe
        /\ LET sanitized == IF DetectedName = None THEN <<>>
                            ELSE AtMostFifty(WithoutForbidden(Flat(DetectedName)))
           IN IF sanitized = <<>> THEN result.value = timestamp_name
              ELSE Stem = sanitized

\* C28 as the code has it: the detected name is first trimmed of the
\* surrounding spaces, then loses the forbidden characters, then has its
\* spaces replaced by hyphens and is cut to 50 characters; the
\* timestamp-based name is used without a detected name and when the
\* sanitized name is empty or is "sitemap".
C28_StemIsTrimmedHyphenatedName ==
    result.done =>
        /\ StemIsSafe
        /\ LET sanitized ==
                  IF DetectedName = None THEN <<>>
                  ELSE AtMostFifty(Hyphenated(WithoutForbidden(Trim(Flat(DetectedName)))))
           IN IF sanitized = <<>> \/ sanitized = <<"sitemap">>
              THEN result.value = timestamp_name
              ELSE Stem = sanitized /\ UnitsLen(Stem) <= 50

C28_Witness ==
    /\ result.done
    /\ DetectedName = Str(<<"A", " ">>, 49)
    /\ result.value = Str(<<"A", "-">>, 48)

C28_WitnessTimestamp ==
    /\ result.done
    /\ DetectedName = Str(<<"?", " ">>, 0)
    /\ result.value = timestamp_name

----------------------------------------------------------------------------
(* Idempotence of the extractor, C29.                                      *)

\* C29: extracting from the extractor's own output gives that output again,
\* for every response text.
C29_ExtractIdempotent ==
    Extracted => extract_xml_from_response(extracted.xml).xml = extracted.xml


\* The text holds no fence marked xml, opened or closed.
NoXmlFence(t) == \A k \in 1..Len(t) : t[k] # "FX"

\* C29 as the code has it: the extraction is idempotent for every text that
\* holds no fence marked xml, and for a text whose first fenced block
\* marked xml holds nothing but a sitemap document.
C29_IdempotentWithoutFenceOrOnPureBlock ==
    (Extracted /\ (NoXmlFence(text)
                      \/ (HasFencedXml(text) /\ PureSitemap(FencedContent(text))))) =>
        extract_xml_from_response(extracted.xml).xml = extracted.xml

C29_Witness ==
    /\ Extracted
    /\ HasFencedXml(text)
    /\ PureSitemap(FencedContent(text))
    /\ extracted.xml # text
    /\ extract_xml_from_response(extracted.xml).xml = extracted.xml

C29_WitnessNoFence ==
    /\ Extracted
    /\ NoXmlFence(text)
    /\ extracted.branch = 3
    /\ extract_xml_from_response(extracted.xml).branch = 2
    /\ extract_xml_from_response(extracted.xml).xml = extracted.xml

----------------------------------------------------------------------------
(* Column detection, C30.                                                  *)

\* C30: for every table of at least 2 columns the detected question column
\* and the detected answer column are two different columns, so that no
\* answer is read from the question column.
C30_DistinctQuestionAndAnswerColumns ==
    (result.done /\ Len(args.columns) >= 2) =>
        /\ ~result.value.stopped
        /\ result.value.question_column # result.value.answer_column

====
